---- MODULE Spec2Model ----
(***************************************************************************)
(* A model of the RAG pipeline of the legal chatbot backend:               *)
(*   - the per-organization FAISS vector store (app/rag/vector_store.py),  *)
(*     with the adaptive-batch embedding client it calls                   *)
(*     (app/services/embedding_service.py);                                *)
(*   - the query pipeline of POST /chat/query (app/api/chat.py) with the   *)
(*     safety, orchestrator, specialist and verification agents.           *)
(* SpecStore runs the vector store, SpecQuery runs the query pipeline,     *)
(* SpecCalls runs it with the retries of chat_completion counted,          *)
(* SpecEmbed follows one call of the embedding client request by request,  *)
(* SpecSearch and SpecMmr apply search and the MMR selection to every      *)
(* input of a bounded set.                                                 *)
(***************************************************************************)
EXTENDS Integers, Sequences, FiniteSets, TLC

VARIABLES
    \* ---- VectorStore (vector_store.py) ----
    indexes,        \* self.indexes: org -> sequence of vectors (a dict)
    metadatas,      \* self.metadatas: org -> sequence of metadata (a dict)
    diskIndex,      \* org_<id>_index.faiss files: org -> sequence of vectors
    diskMeta,       \* org_<id>_metadata.pkl files: org -> sequence of metadata
    s3Index,        \* vector_stores/org_<id>_index.faiss objects
    s3Meta,         \* vector_stores/org_<id>_metadata.pkl objects
    s3Enabled,      \* s3_service.enabled
    \* ---- one add_documents call per ingested document ----
    addPc,          \* doc -> position of its add_documents call
    addOrg,         \* doc -> organization_id of the call
    addChunks,      \* doc -> chunks passed to the call
    restarts,       \* process restarts so far
    \* ---- what the call completing in the last step returned, if any ----
    ret,
    \* ---- one run of submit_query (api/chat.py) ----
    qPc,              \* the stage the run is about to enter, or how it ended
    query_data,       \* the ChatQuery of the request
    organization,     \* organization.id of the caller
    safety_result,    \* dict returned by check_safety
    classification,   \* dict returned by classify_intent
    retrieved_chunks, \* list returned by retrieve_with_mmr
    intent,
    response_text,
    total_tokens,
    total_cost,
    agents_used,
    verification,     \* dict returned by verify_response
    stages,           \* the pipeline stages entered so far, in order
    invoked,          \* the agent methods called so far, in order
    llm_calls,        \* the chat_completion calls so far and how each ended
    response,         \* what submit_query returned to the client
    query_history,    \* the QueryHistory rows committed
    current_user,     \* current_user.id of the caller
    \* ---- one call of the EmbeddingService (embedding_service.py) ----
    ePc,              \* "idle", "loop" (inside embed_batch) or "done"
    eTexts,           \* the texts argument
    eI,               \* i of embed_batch, 1-based
    eSize,            \* position in batch_sizes of the size tried next
    eEmbeddings,      \* the embeddings list of embed_batch
    eLog,             \* the batch attempts so far: position, size, outcome
    eLast,            \* the single-text calls of the last attempt
    eOrphans,         \* tasks of a failed gather that are still running
    eStray,           \* the requests such tasks sent: for which text, and
                      \* whether the loop had already left that text
    \* ---- one call of a function of the retrieval path ----
    fnArgs,           \* its arguments
    fnResult,         \* what it returned
    \* ---- one call of LegalDocumentChunker.chunk_document (chunker.py) ----
    cPc,              \* "idle", "call", "sections", "split", "window", "done"
    cParts,           \* parts of _chunk_by_sections
    cPart,            \* position in parts of the part the for loop is at
    cSection,         \* current_section
    cCurrent,         \* current_text
    cWords,           \* words of the running window loop
    cStart,           \* start of the running window loop
    cChunks,          \* chunks of _chunk_by_sections or _chunk_by_tokens
    cSub,             \* chunks of the running _split_long_text
    cAfter,           \* where the running _split_long_text returns to
    \* ---- document rows and their ingestion tasks (api/documents.py) ----
    documents,        \* the documents table: id -> row (a dict)
    taskPc,           \* doc -> position of its process_document_task
    taskChunks,       \* doc -> number of chunks chunk_document returned
    overlapped        \* whether a task has started while another was running

storeVars == <<indexes, metadatas, diskIndex, diskMeta, s3Index, s3Meta,
               s3Enabled, addPc, addOrg, addChunks, restarts, ret>>

queryVars == <<qPc, query_data, organization, safety_result, classification,
               retrieved_chunks, intent, response_text, total_tokens,
               total_cost, agents_used, verification, stages, invoked,
               llm_calls, response, query_history, current_user>>

embedVars == <<ePc, eTexts, eI, eSize, eEmbeddings, eLog, eLast,
               eOrphans, eStray>>

fnVars == <<fnArgs, fnResult>>

chunkVars == <<cPc, cParts, cPart, cSection, cCurrent, cWords, cStart,
               cChunks, cSub, cAfter>>

ingestVars == <<documents, taskPc, taskChunks, overlapped>>

vars == <<storeVars, queryVars, embedVars, fnVars, chunkVars, ingestVars>>

----------------------------------------------------------------------------
(* Bounds *)

MaxDocs == 2        \* documents ingested in one behaviour
MaxChunks == 2      \* chunks of one document
MaxRestarts == 1    \* process restarts in one behaviour
MaxTopK == 2        \* largest top_k of a search

Orgs == {1, 2}
Docs == 1..MaxDocs

----------------------------------------------------------------------------
(* Python dicts as functions with a finite domain *)

DictSet(d, k, v) == [x \in (DOMAIN d) \cup {k} |-> IF x = k THEN v ELSE d[x]]

EmptyDict == [x \in {} |-> <<>>]

None == "None"

\* d.get(k, default)
Get(d, k, default) == IF k \in DOMAIN d THEN d[k] ELSE default

----------------------------------------------------------------------------
(* Chunks, as process_document_task hands them to add_documents *)

TextOf(d, k) == 10 * d + k

\* documents.py: chunk_document(text, metadata={document_id, organization_id, ...})
\* followed by chunk["metadata"]["text"] = chunk["text"]
\* document.jurisdiction of the uploaded document
JurisdictionOf(d) == IF d % 2 = 1 THEN "US" ELSE "IN"

ChunkOf(d, o, k) ==
    [text |-> TextOf(d, k),
     metadata |-> [document_id |-> d, organization_id |-> o,
                   jurisdiction |-> JurisdictionOf(d),
                   chunk_index |-> k, text |-> TextOf(d, k)]]

ChunksOf(d, o, n) == [k \in 1..n |-> ChunkOf(d, o, k)]

\* The provider's embedding of one text (client.aio.models.embed_content):
\* a fixed vector per text, distinct texts giving distinct vectors.
EmbedContent(t) == <<3 * t + 1>>

----------------------------------------------------------------------------
(* EmbeddingService.embed_batch                                            *)
(* The provider's behaviour during one call is an oracle: at each position *)
(* the loop reaches, the first batch size of [5, 2, 1] whose request       *)
(* succeeds there, or 0 when all three fail.                               *)

batch_sizes == <<5, 2, 1>>

Min(a, b) == IF a < b THEN a ELSE b

Oracles(n) == [1..n -> {batch_sizes[j] : j \in 1..Len(batch_sizes)} \cup {0}]

\* texts[i:batch_end] embedded in order (0-based i of the code is from - 1)
RECURSIVE EmbedSlice(_, _, _)
EmbedSlice(texts, from, to) ==
    IF from > to THEN <<>>
    ELSE <<EmbedContent(texts[from])>> \o EmbedSlice(texts, from + 1, to)

\* the while loop of embed_batch from position i (1-based)
RECURSIVE EmbedBatchFrom(_, _, _)
EmbedBatchFrom(texts, i, oracle) ==
    IF i > Len(texts) THEN <<>>
    ELSE IF oracle[i] = 0
         THEN \* not batch_processed: i += 1, the text is skipped
              EmbedBatchFrom(texts, i + 1, oracle)
         ELSE LET batch_end == Min(i - 1 + oracle[i], Len(texts))
              IN EmbedSlice(texts, i, batch_end)
                    \o EmbedBatchFrom(texts, batch_end + 1, oracle)

embed_batch(texts, oracle) == EmbedBatchFrom(texts, 1, oracle)

----------------------------------------------------------------------------
(* Files.  A metadata file is a pickle: readable with its rows, or a       *)
(* truncated file that pickle.load rejects.                                *)

MetaFile(rows) == [readable |-> TRUE, rows |-> rows]
TruncatedFile == [readable |-> FALSE, rows |-> <<>>]

\* one index file for all organizations
_get_index_path_Shared(organization_id) == 1

\* lines 107-109: org_<id>_index.faiss, a file of its own per organization;
\* files are named here by the organization they belong to
_get_index_path(organization_id) == organization_id

\* VectorStore.sync_from_s3: the local files after the call
sync_from_s3(o, dIdx, dMeta) ==
    IF ~s3Enabled THEN [diskIndex |-> dIdx, diskMeta |-> dMeta]
    ELSE [diskIndex |-> IF o \in DOMAIN s3Index
                        THEN DictSet(dIdx, o, s3Index[o]) ELSE dIdx,
          diskMeta |-> IF o \in DOMAIN s3Meta
                       THEN DictSet(dMeta, o, s3Meta[o]) ELSE dMeta]

\* VectorStore.sync_to_s3: the remote objects after the call
sync_to_s3(o) ==
    IF ~s3Enabled \/ o \notin DOMAIN diskIndex
    THEN [s3Index |-> s3Index, s3Meta |-> s3Meta]
    ELSE [s3Index |-> DictSet(s3Index, o, diskIndex[o]),
          s3Meta |-> IF o \in DOMAIN diskMeta
                     THEN DictSet(s3Meta, o, diskMeta[o]) ELSE s3Meta]

\* VectorStore.load_index: the in-memory maps after the call and its result
load_index(o, idx, meta, dIdx, dMeta) ==
    IF o \notin DOMAIN dIdx
    THEN [ok |-> FALSE, indexes |-> idx, metadatas |-> meta]
    ELSE IF o \in DOMAIN dMeta
         THEN IF dMeta[o].readable
              THEN [ok |-> TRUE, indexes |-> DictSet(idx, o, dIdx[o]),
                    metadatas |-> DictSet(meta, o, dMeta[o].rows)]
              ELSE \* pickle.load raises after self.indexes[org] was assigned
                   [ok |-> FALSE, indexes |-> DictSet(idx, o, dIdx[o]),
                    metadatas |-> meta]
         ELSE [ok |-> TRUE, indexes |-> DictSet(idx, o, dIdx[o]),
               metadatas |-> DictSet(meta, o, <<>>)]

\* "if organization_id not in self.indexes: sync_from_s3; load_index" of
\* add_documents and search: files and maps after it, and whether an index
\* is available without creating one
EnsureLoaded(o) ==
    IF o \in DOMAIN indexes
    THEN [ok |-> TRUE, indexes |-> indexes, metadatas |-> metadatas,
          diskIndex |-> diskIndex, diskMeta |-> diskMeta]
    ELSE LET f == sync_from_s3(o, diskIndex, diskMeta)
             l == load_index(o, indexes, metadatas, f.diskIndex, f.diskMeta)
         IN [ok |-> l.ok, indexes |-> l.indexes, metadatas |-> l.metadatas,
             diskIndex |-> f.diskIndex, diskMeta |-> f.diskMeta]

----------------------------------------------------------------------------
(* VectorStore.search *)

QueryTexts == {TextOf(1, 2)}

Filters == {EmptyDict, [k \in {"jurisdiction"} |-> "US"]}

\* IndexFlatL2: squared Euclidean distance
SqDist(v, q) == (v[1] - q[1]) * (v[1] - q[1])

\* index.search(query_vector, search_k): positions by ascending distance
RECURSIVE NearestFrom(_, _, _, _)
NearestFrom(index, qv, taken, k) ==
    LET rest == (1..Len(index)) \ taken IN
    IF k = 0 \/ rest = {} THEN <<>>
    ELSE LET best == CHOOSE i \in rest : \A j \in rest :
                        \/ SqDist(index[i], qv) < SqDist(index[j], qv)
                        \/ SqDist(index[i], qv) = SqDist(index[j], qv) /\ i <= j
         IN <<best>> \o NearestFrom(index, qv, taken \cup {best}, k - 1)

\* _matches_filters without "if key not in metadata: return False"
_matches_filters_MissingKeyPasses(metadata, filters) ==
    \A key \in DOMAIN filters :
        key \in DOMAIN metadata => metadata[key] = filters[key]

_matches_filters(metadata, filters) ==
    \A key \in DOMAIN filters :
        key \in DOMAIN metadata /\ metadata[key] = filters[key]

\* the result-building loop of search over the neighbours from position n
RECURSIVE BuildResults(_, _, _, _, _, _, _)
BuildResults(near, n, index, metas, qv, top_k, filters) ==
    IF n > Len(near) \/ top_k = 0 THEN <<>>
    ELSE LET idx == near[n] IN
         IF idx <= Len(metas) /\ _matches_filters(metas[idx], filters)
         THEN <<[metadata |-> metas[idx],
                 score |-> SqDist(index[idx], qv),
                 index |-> idx - 1]>>
              \o BuildResults(near, n + 1, index, metas, qv, top_k - 1, filters)
         ELSE BuildResults(near, n + 1, index, metas, qv, top_k, filters)

\* lines 263-297 of search: embed the query, over-fetch, filter, cut
SearchLoaded(index, metas, q, top_k, filters, embedOk) ==
    IF ~embedOk THEN <<>>
    ELSE LET qv == EmbedContent(q)
             search_k == Min(top_k * 3, Len(index))
             near == NearestFrom(index, qv, {}, search_k)
         IN BuildResults(near, 1, index, metas, qv, top_k, filters)

----------------------------------------------------------------------------
(* The state after construction: VectorStore() and empty storage *)

Pcs == {"new", "embedding", "save_index", "save_meta", "sync",
        "done", "failed", "aborted"}

\* what a call returned: a raised exception, a boolean, or search results
Ret(op, o, raised, ok, results) ==
    [op |-> op, org |-> o, raised |-> raised, ok |-> ok, results |-> results]

NoRet == Ret("none", 0, FALSE, FALSE, <<>>)

\* chat.py: no request has been received
NoResponse == [kind |-> "none"]

NoQuery ==
    /\ qPc = "idle"
    /\ query_data = EmptyDict
    /\ organization = 0
    /\ safety_result = EmptyDict
    /\ classification = EmptyDict
    /\ retrieved_chunks = <<>>
    /\ intent = ""
    /\ response_text = ""
    /\ total_tokens = 0
    /\ total_cost = 0
    /\ agents_used = <<>>
    /\ verification = EmptyDict
    /\ stages = <<>>
    /\ invoked = <<>>
    /\ llm_calls = <<>>
    /\ response = NoResponse
    /\ query_history = <<>>
    /\ current_user = 0

\* embedding_service.py: no call of the service is being followed
NoEmbed ==
    /\ ePc = "idle"
    /\ eTexts = <<>>
    /\ eI = 1
    /\ eSize = 1
    /\ eEmbeddings = <<>>
    /\ eLog = <<>>
    /\ eLast = <<>>
    /\ eOrphans = {}
    /\ eStray = {}

\* no function call is being followed
NoCall ==
    /\ fnArgs = EmptyDict
    /\ fnResult = EmptyDict

\* chunker.py: no call of chunk_document is being followed
NoChunking ==
    /\ cPc = "idle"
    /\ cParts = <<>>
    /\ cPart = 1
    /\ cSection = None
    /\ cCurrent = <<>>
    /\ cWords = <<>>
    /\ cStart = 0
    /\ cChunks = <<>>
    /\ cSub = <<>>
    /\ cAfter = "return"

\* documents.py: no document has been uploaded
NoUpload ==
    /\ documents = EmptyDict
    /\ taskPc = [d \in Docs |-> "none"]
    /\ taskChunks = [d \in Docs |-> 0]
    /\ overlapped = FALSE

InitStore ==
    /\ NoQuery
    /\ NoEmbed
    /\ NoCall
    /\ NoChunking
    /\ NoUpload
    /\ indexes = EmptyDict
    /\ metadatas = EmptyDict
    /\ diskIndex = EmptyDict
    /\ diskMeta = EmptyDict
    /\ s3Index = EmptyDict
    /\ s3Meta = EmptyDict
    /\ s3Enabled \in BOOLEAN
    /\ addPc = [d \in Docs |-> "new"]
    /\ addOrg = [d \in Docs |-> 0]
    /\ addChunks = [d \in Docs |-> <<>>]
    /\ restarts = 0
    /\ ret = NoRet

----------------------------------------------------------------------------
(* VectorStore.add_documents, one call per document, in the steps between  *)
(* which the event loop runs other coroutines                              *)

\* lines 186-192: the call starts and awaits embed_batch
AddStart(d, o, n) ==
    /\ addPc[d] = "new"
    /\ addOrg' = [addOrg EXCEPT ![d] = o]
    /\ addChunks' = [addChunks EXCEPT ![d] = ChunksOf(d, o, n)]
    /\ IF n = 0
       THEN /\ addPc' = [addPc EXCEPT ![d] = "failed"]   \* if not chunks
            /\ ret' = Ret("add", o, FALSE, FALSE, <<>>)
       ELSE /\ addPc' = [addPc EXCEPT ![d] = "embedding"]
            /\ ret' = NoRet
    /\ UNCHANGED <<indexes, metadatas, diskIndex, diskMeta, s3Index, s3Meta,
                   s3Enabled, restarts>>
    /\ UNCHANGED <<queryVars, embedVars, fnVars, chunkVars,
                   ingestVars>>

ChunkTexts(chunks) == [k \in 1..Len(chunks) |-> chunks[k].text]
ChunkMetas(chunks) == [k \in 1..Len(chunks) |-> chunks[k].metadata]

\* line 212: self.metadatas[organization_id].extend(chunk metadata)
ExtendMetadata(rows, chunks) == rows \o ChunkMetas(chunks)

\* lines 192-219: embed_batch returned; load or create the index, append
\* the vectors, extend the metadata, hand save_index to the executor
AddEmbedded(d, oracle) ==
    /\ addPc[d] = "embedding"
    /\ LET o == addOrg[d]
           emb == embed_batch(ChunkTexts(addChunks[d]), oracle)
       IN IF Len(emb) = 0
          THEN \* embeddings_array.shape[1] raises IndexError: return False
               /\ addPc' = [addPc EXCEPT ![d] = "failed"]
               /\ ret' = Ret("add", o, FALSE, FALSE, <<>>)
               /\ UNCHANGED <<indexes, metadatas, diskIndex, diskMeta>>
          ELSE \E L \in {EnsureLoaded(o)} :
               LET idx0 == IF L.ok THEN L.indexes
                           ELSE DictSet(L.indexes, o, <<>>)
                   meta0 == IF L.ok THEN L.metadatas
                            ELSE DictSet(L.metadatas, o, <<>>)
               IN /\ indexes' = DictSet(idx0, o, idx0[o] \o emb)
                  /\ diskIndex' = L.diskIndex
                  /\ diskMeta' = L.diskMeta
                  /\ IF o \in DOMAIN meta0
                     THEN /\ metadatas' = DictSet(meta0, o,
                                 ExtendMetadata(meta0[o], addChunks[d]))
                          /\ addPc' = [addPc EXCEPT ![d] = "save_index"]
                          /\ ret' = NoRet
                     ELSE \* KeyError on self.metadatas[org]: return False
                          /\ metadatas' = meta0
                          /\ addPc' = [addPc EXCEPT ![d] = "failed"]
                          /\ ret' = Ret("add", o, FALSE, FALSE, <<>>)
    /\ UNCHANGED <<s3Index, s3Meta, s3Enabled, addOrg, addChunks, restarts>>
    /\ UNCHANGED <<queryVars, embedVars, fnVars, chunkVars,
                   ingestVars>>

\* save_index lines 152-160, in the executor thread: write the index file
SaveIndexFile(d, written) ==
    /\ addPc[d] = "save_index"
    /\ LET o == addOrg[d] IN
       IF o \in DOMAIN indexes /\ written
       THEN /\ diskIndex' = DictSet(diskIndex, _get_index_path(o), indexes[o])
            /\ addPc' = [addPc EXCEPT ![d] = "save_meta"]
       ELSE \* return False: not in self.indexes, or write_index raised
            /\ addPc' = [addPc EXCEPT ![d] = "sync"]
            /\ UNCHANGED diskIndex
    /\ ret' = NoRet
    /\ UNCHANGED <<indexes, metadatas, diskMeta, s3Index, s3Meta, s3Enabled,
                   addOrg, addChunks, restarts>>
    /\ UNCHANGED <<queryVars, embedVars, fnVars, chunkVars,
                   ingestVars>>

\* save_index lines 162-169, in the executor thread: write the metadata file
SaveMetaFile(d, written) ==
    /\ addPc[d] = "save_meta"
    /\ LET o == addOrg[d] IN
       IF o \notin DOMAIN metadatas
       THEN UNCHANGED diskMeta        \* KeyError before open()
       ELSE IF written
            THEN diskMeta' = DictSet(diskMeta, o, MetaFile(metadatas[o]))
            ELSE diskMeta' = DictSet(diskMeta, o, TruncatedFile)
    /\ addPc' = [addPc EXCEPT ![d] = "sync"]
    /\ ret' = NoRet
    /\ UNCHANGED <<indexes, metadatas, diskIndex, s3Index, s3Meta, s3Enabled,
                   addOrg, addChunks, restarts>>
    /\ UNCHANGED <<queryVars, embedVars, fnVars, chunkVars,
                   ingestVars>>

\* lines 221-224: back on the event loop, sync_to_s3 and return True
AddSync(d) ==
    /\ addPc[d] = "sync"
    /\ \E r \in {sync_to_s3(addOrg[d])} :
          /\ s3Index' = r.s3Index
          /\ s3Meta' = r.s3Meta
    /\ addPc' = [addPc EXCEPT ![d] = "done"]
    /\ ret' = Ret("add", addOrg[d], FALSE, TRUE, <<>>)
    /\ UNCHANGED <<indexes, metadatas, diskIndex, diskMeta, s3Enabled,
                   addOrg, addChunks, restarts>>
    /\ UNCHANGED <<queryVars, embedVars, fnVars, chunkVars,
                   ingestVars>>

----------------------------------------------------------------------------
(* VectorStore.search: what it returns (or that it raised) and the maps    *)
(* and files it leaves                                                     *)

\* lines 257-297, with the maps and files L that lines 250-255 left
\* search without "if not loaded: return []"
SearchFrom_NoLoadCheck(L, o, q, top_k, filters, embedOk) ==
    LET out(raised, results) ==
            [raised |-> raised, results |-> results,
             indexes |-> L.indexes, metadatas |-> L.metadatas,
             diskIndex |-> L.diskIndex, diskMeta |-> L.diskMeta]
    IN IF o \notin DOMAIN L.metadatas
       THEN out(TRUE, <<>>)
       ELSE IF Len(L.indexes[o]) = 0 THEN out(FALSE, <<>>)
            ELSE out(FALSE, SearchLoaded(L.indexes[o], L.metadatas[o],
                                         q, top_k, filters, embedOk))

\* lines 249-297: search once the index was looked for
SearchFrom(L, o, q, top_k, filters, embedOk) ==
    LET out(raised, results) ==
            [raised |-> raised, results |-> results,
             indexes |-> L.indexes, metadatas |-> L.metadatas,
             diskIndex |-> L.diskIndex, diskMeta |-> L.diskMeta]
    IN IF ~L.ok THEN out(FALSE, <<>>)                          \* line 255
       ELSE IF o \notin DOMAIN L.metadatas
            THEN out(TRUE, <<>>)       \* line 258: KeyError, outside the try
            ELSE IF Len(L.indexes[o]) = 0 THEN out(FALSE, <<>>)    \* line 261
                 ELSE out(FALSE, SearchLoaded(L.indexes[o], L.metadatas[o],
                                              q, top_k, filters, embedOk))

search(o, q, top_k, filters, embedOk) ==
    SearchFrom(EnsureLoaded(o), o, q, top_k, filters, embedOk)

Search(o, q, top_k, filters, embedOk) ==
    \E r \in {search(o, q, top_k, filters, embedOk)} :
    /\ indexes' = r.indexes
    /\ metadatas' = r.metadatas
    /\ diskIndex' = r.diskIndex
    /\ diskMeta' = r.diskMeta
    /\ ret' = Ret("search", o, r.raised, ~r.raised, r.results)
    /\ UNCHANGED <<s3Index, s3Meta, s3Enabled, addPc, addOrg, addChunks,
                   restarts>>
    /\ UNCHANGED <<queryVars, embedVars, fnVars, chunkVars,
                   ingestVars>>

----------------------------------------------------------------------------
(* VectorStore.delete_document *)

\* what delete_document or the delete endpoint returned for a document
DeleteRet(op, o, document_id, raised, ok) ==
    [op |-> op, org |-> o, document_id |-> document_id,
     raised |-> raised, ok |-> ok, results |-> <<>>]

DeleteDocument(o, document_id) ==
    \E l \in {IF o \in DOMAIN indexes
              THEN [ok |-> TRUE, indexes |-> indexes, metadatas |-> metadatas]
              ELSE load_index(o, indexes, metadatas, diskIndex, diskMeta)} :
    /\ indexes' = l.indexes
    /\ metadatas' = l.metadatas
    /\ IF ~l.ok
       THEN ret' = DeleteRet("delete", o, document_id, FALSE, FALSE)  \* line 320
       ELSE IF o \notin DOMAIN l.metadatas
            THEN \* line 323: KeyError
                 ret' = DeleteRet("delete", o, document_id, TRUE, FALSE)
            ELSE LET metas == l.metadatas[o]
                     keep_indices == {i \in 1..Len(metas) :
                                        metas[i].document_id # document_id}
                 IN IF Cardinality(keep_indices) = Len(metas)
                    THEN \* line 331: nothing to delete
                         ret' = DeleteRet("delete", o, document_id, FALSE, FALSE)
                    ELSE \* line 337: return True, the index is not rebuilt
                         ret' = DeleteRet("delete", o, document_id, FALSE, TRUE)
    /\ UNCHANGED <<diskIndex, diskMeta, s3Index, s3Meta, s3Enabled, addPc,
                   addOrg, addChunks, restarts>>
    /\ UNCHANGED <<queryVars, embedVars, fnVars, chunkVars,
                   ingestVars>>

\* documents.py, DELETE /documents/{document_id}: the document of the
\* organization is found, its file and its row are deleted, and the call
\* of vector_store.delete_document is commented out (lines 290-291)
DeleteDocumentEndpoint(o, document_id) ==
    /\ addOrg[document_id] = o
    /\ addPc[document_id] \in {"done", "failed", "aborted"}
    /\ ret' = DeleteRet("delete_endpoint", o, document_id, FALSE, TRUE)
    /\ UNCHANGED <<indexes, metadatas, diskIndex, diskMeta, s3Index, s3Meta,
                   s3Enabled, addPc, addOrg, addChunks, restarts>>
    /\ UNCHANGED <<queryVars, embedVars, fnVars, chunkVars,
                   ingestVars>>

----------------------------------------------------------------------------
(* A process restart: vector_store = VectorStore() starts with empty maps, *)
(* the files stay, the calls in flight are gone                            *)

InFlight == {"embedding", "save_index", "save_meta", "sync"}

Restart ==
    /\ restarts < MaxRestarts
    /\ restarts' = restarts + 1
    /\ indexes' = EmptyDict
    /\ metadatas' = EmptyDict
    /\ addPc' = [d \in Docs |-> IF addPc[d] \in InFlight THEN "aborted"
                                ELSE addPc[d]]
    /\ ret' = NoRet
    /\ UNCHANGED <<diskIndex, diskMeta, s3Index, s3Meta, s3Enabled, addOrg,
                   addChunks>>
    /\ UNCHANGED <<queryVars, embedVars, fnVars, chunkVars,
                   ingestVars>>

----------------------------------------------------------------------------

NextStore ==
    \/ \E d \in Docs, o \in Orgs, n \in 0..MaxChunks :
            \* documents are numbered in upload order, organizations in the
            \* order of their first upload
            /\ \A e \in Docs : e < d => addPc[e] # "new"
            /\ d = 1 => o = 1
            /\ AddStart(d, o, n)
    \/ \E d \in Docs : \E oracle \in Oracles(Len(addChunks[d])) :
            AddEmbedded(d, oracle)
    \/ \E d \in Docs, written \in BOOLEAN : SaveIndexFile(d, written)
    \/ \E d \in Docs, written \in BOOLEAN : SaveMetaFile(d, written)
    \/ \E d \in Docs : AddSync(d)
    \/ \E o \in Orgs, q \in QueryTexts, top_k \in 1..MaxTopK,
          filters \in Filters, embedOk \in BOOLEAN :
            Search(o, q, top_k, filters, embedOk)
    \/ \E o \in Orgs, d \in Docs : DeleteDocument(o, d)
    \/ \E o \in Orgs, d \in Docs : DeleteDocumentEndpoint(o, d)
    \/ Restart

SpecStore == InitStore /\ [][NextStore]_vars

----------------------------------------------------------------------------
(* Claims about the vector store, checked under SpecStore *)

\* C1: for every organization, at every point, the in-memory metadata list
\* is as long as the index has vectors.
C1_MetadataLenEqualsVectorCount ==
    \A o \in (DOMAIN indexes) \cap (DOMAIN metadatas) :
        Len(metadatas[o]) = Len(indexes[o])

\* C2: for every organization and every position i of its index, the
\* metadata at position i is that of the chunk whose text produced the
\* vector at position i.
C2_MetadataAlignedWithVectors ==
    \A o \in (DOMAIN indexes) \cap (DOMAIN metadatas) :
        \A i \in 1..Len(indexes[o]) :
            /\ i <= Len(metadatas[o])
            /\ indexes[o][i] = EmbedContent(metadatas[o][i].text)

\* the organization's loaded metadata has a chunk of the document
HasChunkOf(o, document_id) ==
    /\ o \in DOMAIN metadatas
    /\ \E i \in 1..Len(metadatas[o]) :
          metadatas[o][i].document_id = document_id

\* C18: when delete_document has returned True for a document of an
\* organization, or the delete endpoint has completed for it, the index of
\* the organization has no chunk of that document, and a search that
\* follows returns no chunk of it.
C18_DeletedDocumentIsGone ==
    [][(ret.op \in {"delete", "delete_endpoint"} /\ ret.ok) =>
          /\ ~HasChunkOf(ret.org, ret.document_id)
          /\ (ret'.op = "search" /\ ret'.org = ret.org) =>
                \A j \in 1..Len(ret'.results) :
                    ret'.results[j].metadata.document_id # ret.document_id]_vars

\* what the store holds for an organization: its in-memory index and
\* metadata list, its files, its objects in S3
Holding(o, idx, meta, dIdx, dMeta, sIdx, sMeta) ==
    <<Get(idx, o, None), Get(meta, o, None), Get(dIdx, o, None),
      Get(dMeta, o, None), Get(sIdx, o, None), Get(sMeta, o, None)>>

\* the chunk metadata passed to add_documents calls of an organization
AddedFor(o, orgOf, chunksOf) ==
    UNION {{chunksOf[d][k].metadata : k \in 1..Len(chunksOf[d])} :
              d \in {e \in Docs : orgOf[e] = o}}

\* C19: a step of add_documents, search or delete_document for one
\* organization leaves the in-memory index, the metadata list, the files
\* and the S3 objects of every other organization unchanged, and every
\* chunk a search returns was passed to add_documents for the organization
\* searched.
C19_TenantIsolation ==
    [][LET stepOrgs ==
               {addOrg'[d] : d \in {e \in Docs : addPc'[e] # addPc[e]}}
                  \cup (IF ret'.op \in {"search", "delete", "delete_endpoint"}
                        THEN {ret'.org} ELSE {})
       IN /\ restarts' = restarts =>
                \A a \in Orgs \ stepOrgs :
                    Holding(a, indexes', metadatas', diskIndex', diskMeta',
                            s3Index', s3Meta')
                      = Holding(a, indexes, metadatas, diskIndex, diskMeta,
                                s3Index, s3Meta)
          /\ ret'.op = "search" =>
                \A j \in 1..Len(ret'.results) :
                    /\ ret'.results[j].metadata.organization_id = ret'.org
                    /\ ret'.results[j].metadata
                          \in AddedFor(ret'.org, addOrg', addChunks')]_vars

\* a search of organization 1 has returned chunks after add_documents for
\* organization 2 built a different index, in memory and on disk
C19_Witness ==
    /\ ret.op = "search"
    /\ ret.org = 1
    /\ Len(ret.results) > 0
    /\ 2 \in DOMAIN indexes
    /\ 2 \in DOMAIN diskIndex
    /\ 1 \in DOMAIN diskIndex
    /\ indexes[1] # indexes[2]

\* the organization has no index in memory, on disk or in S3
NoIndex(o) ==
    /\ o \notin DOMAIN indexes
    /\ o \notin DOMAIN diskIndex
    /\ o \notin DOMAIN s3Index

\* the organization's index holds zero vectors
EmptyIndex(o) ==
    \/ o \in DOMAIN indexes /\ Len(indexes[o]) = 0
    \/ /\ o \notin DOMAIN indexes
       /\ IF s3Enabled /\ o \in DOMAIN s3Index THEN Len(s3Index[o]) = 0
          ELSE o \in DOMAIN diskIndex /\ Len(diskIndex[o]) = 0

----------------------------------------------------------------------------
(* LLMService.chat_completion, as its callers see it: after tenacity's     *)
(* attempts it either raises or returns the text of the model with the     *)
(* token usage of the request.                                             *)

\* estimate_cost, in units of 10^-9 dollar: $0.075 and $0.30 per 1M tokens
estimate_cost(input_tokens, output_tokens) ==
    75 * input_tokens + 300 * output_tokens

Usages == {[input_tokens |-> 40, output_tokens |-> 20]}

\* @retry(stop=stop_after_attempt(3), ...): a call makes at most this many
\* requests to the provider
stop_after_attempt == 3

\* every attempt failed: tenacity raises after the last one
LlmRaise == [kind |-> "raise", attempts |-> stop_after_attempt]

\* the request of attempt 1 succeeded
LlmOk(content, u) ==
    [kind |-> "ok", attempts |-> 1, content |-> content,
     input_tokens |-> u.input_tokens, output_tokens |-> u.output_tokens,
     total_tokens |-> u.input_tokens + u.output_tokens,
     cost |-> estimate_cost(u.input_tokens, u.output_tokens)]

\* The text of a model that was asked for JSON: a body that is a JSON
\* object, another JSON value or no JSON at all, alone ("bare"), inside a
\* ```json fence or a ``` fence with prose around it, or with prose around
\* it and no fence.
Wraps == {"bare", "json_fence", "fence", "prose"}

JsonObject(value) == [type |-> "object", value |-> value]
JsonArray == [type |-> "array", value |-> EmptyDict]
NotJson == [type |-> "invalid", value |-> EmptyDict]

JsonTexts(objects) ==
    [wrap : Wraps, body : {JsonObject(v) : v \in objects} \cup {JsonArray, NotJson}]

JsonReplies(objects) ==
    {LlmRaise} \cup {LlmOk(c, u) : c \in JsonTexts(objects), u \in Usages}

\* the "Extract JSON" lines of the three agents followed by json.loads:
\* the text between the fences, or the whole text when there is no fence
json_loads(content) ==
    IF content.wrap \in {"json_fence", "fence"} THEN content.body
    ELSE IF content.wrap = "bare" THEN content.body
         ELSE NotJson              \* the prose is part of json_str

\* how a call ended, seen from its caller: it raised, or what its text parses to
Outcome(reply) ==
    IF reply.kind = "raise" THEN "raise" ELSE json_loads(reply.content).type

\* the retry decorator around chat_completion: the requests before the one
\* that succeeded raised and were repeated
Retried(replies) ==
    {IF r.kind = "ok" THEN [r EXCEPT !.attempts = n] ELSE r :
        r \in replies, n \in 1..stop_after_attempt}

\* one call of chat_completion: who called, how it ended, and the number of
\* requests it sent to the provider
LlmCall(caller, outcome, reply) ==
    [caller |-> caller, outcome |-> outcome, requests |-> reply.attempts]

----------------------------------------------------------------------------
(* SafetyAgent *)

LEGAL_DISCLAIMER == "LEGAL_DISCLAIMER"

\* the JSON objects the safety model may answer with
SafetyObjects ==
    {[safety_check |-> "PASS", reason |-> "reason", suggested_action |-> "action"],
     [safety_check |-> "WARN", reason |-> "reason", suggested_action |-> "action"],
     [safety_check |-> "REFUSE", reason |-> "reason", suggested_action |-> "action"],
     [safety_check |-> "REFUSE", suggested_action |-> "action"],
     [safety_check |-> "REFUSE", reason |-> "reason"],
     [reason |-> "reason", suggested_action |-> "action"]}

SafetyFallback ==
    [safety_check |-> "WARN",
     reason |-> "Safety check failed",
     suggested_action |-> "Review response carefully",
     disclaimer_added |-> TRUE,
     disclaimer_text |-> LEGAL_DISCLAIMER]

check_safety(reply) ==
    IF reply.kind = "raise" THEN SafetyFallback
    ELSE LET parsed == json_loads(reply.content) IN
         IF parsed.type # "object"
         THEN SafetyFallback     \* json.loads raised, or item assignment did
         ELSE DictSet(DictSet(parsed.value, "disclaimer_added", TRUE),
                      "disclaimer_text", LEGAL_DISCLAIMER)

should_refuse(result) == Get(result, "safety_check", None) = "REFUSE"

----------------------------------------------------------------------------
(* OrchestratorAgent *)

Intents == {"statutory_interpretation", "case_law_research",
            "contract_analysis", "compliance_check", "general_legal"}

\* the JSON objects the classifier model may answer with
ClassifierObjects ==
    {[intent |-> i, agents_to_call |-> a] :
        i \in Intents \cup {"tax_advice"},
        a \in {<<"retriever">>, <<"Verification", "retriever">>}}
    \cup {[intent |-> i] : i \in {"statutory_interpretation"}}
    \cup {[agents_to_call |-> <<"SAFETY">>]}

\* str.lower on the agent names that occur
Lower(a) == CASE a = "Verification" -> "verification"
              [] a = "SAFETY" -> "safety"
              [] OTHER -> a

ClassificationFallback ==
    [intent |-> "general_legal",
     agents_to_call |-> <<"retriever", "verification", "safety">>,
     confidence |-> 5,                                   \* 0.5, in tenths
     reasoning |-> "Classification failed"]

classify_intent(reply) ==
    IF reply.kind = "raise" THEN ClassificationFallback
    ELSE LET parsed == json_loads(reply.content) IN
         IF parsed.type # "object"
         THEN ClassificationFallback  \* json.loads raised, or .get did
         ELSE LET agents0 == Get(parsed.value, "agents_to_call", <<>>)
                  lower(as) == {Lower(as[i]) : i \in 1..Len(as)}
                  agents1 == IF "verification" \notin lower(agents0)
                             THEN Append(agents0, "verification") ELSE agents0
                  agents2 == IF "safety" \notin lower(agents1)
                             THEN Append(agents1, "safety") ELSE agents1
              IN DictSet(parsed.value, "agents_to_call", agents2)

----------------------------------------------------------------------------
(* VerificationAgent *)

\* the JSON objects the verifier model may answer with (scores in tenths)
VerifierObjects ==
    {[citations_valid |-> TRUE, confidence_score |-> 9],
     [citations_valid |-> TRUE]}

VerificationFallback ==
    [citations_valid |-> FALSE,
     unsupported_claims |-> <<>>,
     confidence_score |-> 5,
     verification_notes |-> "Verification failed"]

verify_response(reply) ==
    IF reply.kind = "raise" THEN VerificationFallback
    ELSE LET parsed == json_loads(reply.content) IN
         IF parsed.type # "object"
         THEN VerificationFallback
         ELSE IF "confidence_score" \notin DOMAIN parsed.value
              THEN DictSet(parsed.value, "confidence_score", 7)
              ELSE parsed.value

----------------------------------------------------------------------------
(* RetrieverAgent.  Scores are exact fractions num/den with den > 0.       *)

RETRIEVAL_TOP_K == 5

Frac(n, d) == [num |-> n, den |-> d]

MMR_DIVERSITY_SCORE == Frac(3, 10)

FracLess(a, b) == a.num * b.den < b.num * a.den
FracMul(a, b) == Frac(a.num * b.num, a.den * b.den)
FracSub(a, b) == Frac(a.num * b.den - b.num * a.den, a.den * b.den)

\* set(text.lower().split()): the chunks of one document share a word, and
\* so do the chunks at the same position of two documents
WordsOf(t) == {t \div 10, 100 + (t % 10)}

_text_similarity(text1, text2) ==
    LET words1 == WordsOf(text1)
        words2 == WordsOf(text2)
    IN IF words1 = {} \/ words2 = {} THEN Frac(0, 1)
       ELSE Frac(Cardinality(words1 \cap words2),
                 Cardinality(words1 \cup words2))

\* lines 60-68 of retrieve: the enriched results
Enrich(results) ==
    [i \in 1..Len(results) |->
        [text |-> Get(results[i].metadata, "text", 0),
         metadata |-> results[i].metadata,
         relevance_score |-> Frac(1, 1 + results[i].score)]]

\* retrieve: the results, or that search raised, and the store it leaves
retrieve(o, q, jurisdiction, top_k, embedOk) ==
    LET filters == IF jurisdiction # None
                   THEN [k \in {"jurisdiction"} |-> jurisdiction]
                   ELSE EmptyDict
        r == search(o, q, top_k, filters, embedOk)
    IN [r EXCEPT !.results = Enrich(r.results)]

\* the score with the diversity weight left out: relevance - max_similarity
MmrScore_Unweighted(candidate, selected, diversity_score) ==
    LET sims == {_text_similarity(candidate.text, selected[j].text) :
                    j \in 1..Len(selected)}
        max_similarity == CHOOSE m \in sims : \A x \in sims : ~FracLess(m, x)
    IN FracSub(candidate.relevance_score, max_similarity)

\* lines 122-127: the MMR score of a candidate against the selected ones
MmrScore(candidate, selected, diversity_score) ==
    LET sims == {_text_similarity(candidate.text, selected[j].text) :
                    j \in 1..Len(selected)}
        max_similarity == CHOOSE m \in sims : \A x \in sims : ~FracLess(m, x)
    IN FracSub(candidate.relevance_score,
               FracMul(diversity_score, max_similarity))

\* remaining[best_idx] read without remaining.pop
RemoveAt_Keep(seq, i) == seq

\* remaining.pop(best_idx): what is left of remaining
RemoveAt(seq, i) == SubSeq(seq, 1, i - 1) \o SubSeq(seq, i + 1, Len(seq))

\* the while loop of retrieve_with_mmr, lines 113-133
RECURSIVE MmrLoop(_, _, _, _)
MmrLoop(selected, remaining, target_k, diversity_score) ==
    IF Len(selected) >= target_k \/ Len(remaining) = 0 THEN selected
    ELSE LET mmr(i) == MmrScore(remaining[i], selected, diversity_score)
             \* "if mmr_score > best_score": the first of the best
             best_idx == CHOOSE i \in 1..Len(remaining) :
                            \A j \in 1..Len(remaining) :
                                /\ ~FracLess(mmr(i), mmr(j))
                                /\ j < i => FracLess(mmr(j), mmr(i))
         IN MmrLoop(Append(selected, remaining[best_idx]),
                    RemoveAt(remaining, best_idx), target_k, diversity_score)

\* the first target_k results of retrieve, by relevance alone
MmrSelect_ByRelevance(results, target_k, diversity_score) ==
    SubSeq(results, 1, Min(Len(results), target_k))

\* lines 103-135: the selection among the results of retrieve
MmrSelect(results, target_k, diversity_score) ==
    IF Len(results) = 0 THEN <<>>
    ELSE LET selected == MmrLoop(<<results[1]>>, Tail(results), target_k,
                                 diversity_score)
         IN SubSeq(selected, 1, Min(Len(selected), target_k))

retrieve_with_mmr(o, q, diversity_score, jurisdiction, top_k, embedOk) ==
    LET k == IF top_k # 0 THEN top_k ELSE RETRIEVAL_TOP_K
        initial_k == k * 2
        r == retrieve(o, q, jurisdiction, initial_k, embedOk)
    IN IF r.raised THEN r
       ELSE [r EXCEPT !.results = MmrSelect(r.results, k, diversity_score)]

----------------------------------------------------------------------------
(* The specialist agents: the result dict of each for one LLM reply *)

AnswerText == "LLM answer"

SpecialistReplies == {LlmRaise} \cup {LlmOk(AnswerText, u) : u \in Usages}

interpret_statute(reply) ==
    IF reply.kind = "ok"
    THEN [interpretation |-> reply.content, agent |-> "statutory_interpreter",
          tokens_used |-> reply.total_tokens, cost |-> reply.cost]
    ELSE [interpretation |-> "Error in statutory interpretation",
          agent |-> "statutory_interpreter", error |-> "error"]

research_case_law(reply) ==
    IF reply.kind = "ok"
    THEN [case_analysis |-> reply.content, agent |-> "case_law_researcher",
          tokens_used |-> reply.total_tokens, cost |-> reply.cost]
    ELSE [case_analysis |-> "Error in case law research",
          agent |-> "case_law_researcher", error |-> "error"]

analyze_contract(reply) ==
    IF reply.kind = "ok"
    THEN [contract_analysis |-> reply.content, agent |-> "contract_analyzer",
          tokens_used |-> reply.total_tokens, cost |-> reply.cost]
    ELSE [contract_analysis |-> "Error in contract analysis",
          agent |-> "contract_analyzer", error |-> "error"]

check_compliance(reply) ==
    IF reply.kind = "ok"
    THEN [compliance_analysis |-> reply.content, agent |-> "compliance_agent",
          tokens_used |-> reply.total_tokens, cost |-> reply.cost]
    ELSE [compliance_analysis |-> "Error in compliance check",
          agent |-> "compliance_agent", error |-> "error"]

----------------------------------------------------------------------------
(* submit_query (api/chat.py), one run, in the steps between its awaits *)

Users == {7}
Jurisdictions == {None, "US"}
QueryText == TextOf(1, 2)

Unhandled(error) == [kind |-> "exception", error |-> error]

\* the request arrives: FastAPI resolves the dependencies and calls the handler
SubmitQuery(o, u, jurisdiction, include_citations) ==
    /\ qPc = "idle"
    /\ qPc' = "safety"
    /\ query_data' = [query |-> QueryText, jurisdiction |-> jurisdiction,
                      include_citations |-> include_citations]
    /\ organization' = o
    /\ current_user' = u
    /\ UNCHANGED <<safety_result, classification, retrieved_chunks, intent,
                   response_text, total_tokens, total_cost, agents_used,
                   verification, stages, invoked, llm_calls, response,
                   query_history>>
    /\ UNCHANGED <<storeVars, embedVars, fnVars, chunkVars,
                   ingestVars>>

\* lines 36-57: step 1, and the refusal
SafetyCheck(reply) ==
    /\ qPc = "safety"
    /\ stages' = Append(stages, "safety")
    /\ invoked' = Append(invoked, "safety_agent.check_safety")
    /\ llm_calls' = Append(llm_calls, LlmCall("safety", Outcome(reply), reply))
    /\ \E result \in {check_safety(reply)} :
         /\ safety_result' = result
         /\ IF should_refuse(result)
            THEN IF "reason" \in DOMAIN result
                    /\ "suggested_action" \in DOMAIN result
                 THEN /\ qPc' = "refused"
                      /\ response' =
                           [kind |-> "response",
                            query_id |-> 0,
                            response |-> <<"Request refused", result.reason,
                                           result.suggested_action>>,
                            intent |-> "refused",
                            agents_used |-> <<"safety">>,
                            citations |-> <<>>,
                            confidence_score |-> 0,
                            safety_check |-> result.safety_check,
                            disclaimer |-> result.disclaimer_text,
                            tokens_used |-> 0,
                            cost_estimate |-> 0]
                 ELSE \* line 47: KeyError while formatting the refusal
                      /\ qPc' = "error"
                      /\ response' = Unhandled("KeyError")
            ELSE /\ qPc' = "classify"
                 /\ UNCHANGED response
    /\ UNCHANGED <<query_data, organization, current_user, classification,
                   retrieved_chunks, intent, response_text, total_tokens,
                   total_cost, agents_used, verification, query_history>>
    /\ UNCHANGED <<storeVars, embedVars, fnVars, chunkVars,
                   ingestVars>>

\* a variant of step 2 that hands over to the specialists at once
Classify_SkipRetrieval(reply) ==
    /\ qPc = "classify"
    /\ stages' = Append(stages, "classification")
    /\ invoked' = Append(invoked, "orchestrator_agent.classify_intent")
    /\ llm_calls' = Append(llm_calls, LlmCall("orchestrator", Outcome(reply), reply))
    /\ classification' = classify_intent(reply)
    /\ qPc' = "dispatch"
    /\ UNCHANGED <<query_data, organization, current_user, safety_result,
                   retrieved_chunks, intent, response_text, total_tokens,
                   total_cost, agents_used, verification, response,
                   query_history>>
    /\ UNCHANGED <<storeVars, embedVars, fnVars, chunkVars,
                   ingestVars>>

\* line 60: step 2
Classify(reply) ==
    /\ qPc = "classify"
    /\ stages' = Append(stages, "classification")
    /\ invoked' = Append(invoked, "orchestrator_agent.classify_intent")
    /\ llm_calls' = Append(llm_calls, LlmCall("orchestrator", Outcome(reply), reply))
    /\ classification' = classify_intent(reply)
    /\ qPc' = "retrieve"
    /\ UNCHANGED <<query_data, organization, current_user, safety_result,
                   retrieved_chunks, intent, response_text, total_tokens,
                   total_cost, agents_used, verification, response,
                   query_history>>
    /\ UNCHANGED <<storeVars, embedVars, fnVars, chunkVars,
                   ingestVars>>

\* lines 63-68: step 3
Retrieve(embedOk) ==
    /\ qPc = "retrieve"
    /\ stages' = Append(stages, "retrieval")
    /\ invoked' = Append(invoked, "retriever_agent.retrieve_with_mmr")
    /\ \E r \in {retrieve_with_mmr(organization, query_data.query,
                                   MMR_DIVERSITY_SCORE,
                                   query_data.jurisdiction, 5, embedOk)} :
         /\ indexes' = r.indexes
         /\ metadatas' = r.metadatas
         /\ diskIndex' = r.diskIndex
         /\ diskMeta' = r.diskMeta
         /\ IF r.raised
            THEN \* the KeyError of search leaves the handler
                 /\ qPc' = "error"
                 /\ response' = Unhandled("KeyError")
                 /\ UNCHANGED retrieved_chunks
            ELSE /\ qPc' = "dispatch"
                 /\ retrieved_chunks' = r.results
                 /\ UNCHANGED response
    /\ UNCHANGED <<query_data, organization, current_user, safety_result,
                   classification, intent, response_text, total_tokens,
                   total_cost, agents_used, verification, llm_calls,
                   query_history>>
    /\ UNCHANGED <<s3Index, s3Meta, s3Enabled, addPc, addOrg, addChunks,
                   restarts, ret>>
    /\ UNCHANGED <<embedVars, fnVars, chunkVars,
                   ingestVars>>

\* a variant of the routing without the contract_analysis branch
SpecialistOf_NoContractBranch(i) ==
    CASE i = "statutory_interpretation" -> "statutory_interpreter"
      [] i = "case_law_research" -> "case_law_researcher"
      [] i = "compliance_check" -> "compliance_agent"
      [] OTHER -> "hybrid_legal_agent"

\* lines 78-116: the specialist of an intent and the key of its answer
SpecialistOf(i) ==
    CASE i = "statutory_interpretation" -> "statutory_interpreter"
      [] i = "case_law_research" -> "case_law_researcher"
      [] i = "contract_analysis" -> "contract_analyzer"
      [] i = "compliance_check" -> "compliance_agent"
      [] OTHER -> "hybrid_legal_agent"

SpecialistResult(i, reply) ==
    CASE i = "statutory_interpretation" ->
            [r |-> interpret_statute(reply), key |-> "interpretation"]
      [] i = "case_law_research" ->
            [r |-> research_case_law(reply), key |-> "case_analysis"]
      [] i = "contract_analysis" ->
            [r |-> analyze_contract(reply), key |-> "contract_analysis"]
      [] OTHER ->
            [r |-> check_compliance(reply), key |-> "compliance_analysis"]

\* lines 71-141: step 4
Dispatch(reply) ==
    /\ qPc = "dispatch"
    /\ stages' = Append(stages, "specialist")
    /\ \E i \in {Get(classification, "intent", "general_legal")} :
         /\ intent' = i
         /\ invoked' = Append(invoked, SpecialistOf(i))
         /\ llm_calls' = Append(llm_calls, LlmCall(SpecialistOf(i), reply.kind, reply))
         /\ IF SpecialistOf(i) # "hybrid_legal_agent"
            THEN \E s \in {SpecialistResult(i, reply)} :
                 /\ response_text' = Get(s.r, s.key, "")
                 /\ total_tokens' = Get(s.r, "tokens_used", 0)
                 /\ total_cost' = Get(s.r, "cost", 0)
                 /\ agents_used' = <<"orchestrator", "safety", "retriever",
                                     SpecialistOf(i)>>
                 /\ qPc' = "verify"
                 /\ UNCHANGED response
            ELSE IF reply.kind = "ok"
                 THEN /\ response_text' = reply.content
                      /\ total_tokens' = reply.total_tokens
                      /\ total_cost' = reply.cost
                      /\ agents_used' = <<"orchestrator", "safety",
                                          "retriever", "hybrid_legal_agent">>
                      /\ qPc' = "verify"
                      /\ UNCHANGED response
                 ELSE \* line 131: chat_completion raises outside any try
                      /\ response_text' = ""
                      /\ total_tokens' = 0
                      /\ total_cost' = 0
                      /\ agents_used' = <<"orchestrator", "safety",
                                          "retriever">>
                      /\ qPc' = "error"
                      /\ response' = Unhandled("RetryError")
    /\ UNCHANGED <<query_data, organization, current_user, safety_result,
                   classification, retrieved_chunks, verification,
                   query_history>>
    /\ UNCHANGED <<storeVars, embedVars, fnVars, chunkVars,
                   ingestVars>>

\* step 5 with the tokens and the cost of the verifier's call added to the
\* totals of the run
Verify_Counted(reply) ==
    /\ qPc = "verify"
    /\ stages' = Append(stages, "verification")
    /\ invoked' = Append(invoked, "verification_agent.verify_response")
    /\ llm_calls' = Append(llm_calls, LlmCall("verification", Outcome(reply), reply))
    /\ verification' = verify_response(reply)
    /\ agents_used' = Append(agents_used, "verification")
    /\ total_tokens' = total_tokens
                          + (IF reply.kind = "ok" THEN reply.total_tokens ELSE 0)
    /\ total_cost' = total_cost + (IF reply.kind = "ok" THEN reply.cost ELSE 0)
    /\ qPc' = "finalize"
    /\ UNCHANGED <<query_data, organization, current_user, safety_result,
                   classification, retrieved_chunks, intent, response_text,
                   response, query_history>>
    /\ UNCHANGED <<storeVars, embedVars, fnVars, chunkVars,
                   ingestVars>>

\* lines 144-149: step 5
Verify(reply) ==
    /\ qPc = "verify"
    /\ stages' = Append(stages, "verification")
    /\ invoked' = Append(invoked, "verification_agent.verify_response")
    /\ llm_calls' = Append(llm_calls, LlmCall("verification", Outcome(reply), reply))
    /\ verification' = verify_response(reply)
    /\ agents_used' = Append(agents_used, "verification")
    /\ qPc' = "finalize"
    /\ UNCHANGED <<query_data, organization, current_user, safety_result,
                   classification, retrieved_chunks, intent, response_text,
                   total_tokens, total_cost, response, query_history>>
    /\ UNCHANGED <<storeVars, embedVars, fnVars, chunkVars,
                   ingestVars>>

\* the citations without the cut at three chunks
Citations_Untrimmed(chunks, include_citations) ==
    IF include_citations
    THEN [i \in 1..Len(chunks) |->
            [source |-> Get(chunks[i].metadata, "title", "Unknown"),
             text |-> chunks[i].text,
             metadata |-> chunks[i].metadata]]
    ELSE <<>>

\* lines 155-162
Citations(chunks, include_citations) ==
    IF include_citations
    THEN [i \in 1..Min(3, Len(chunks)) |->
            [source |-> Get(chunks[i].metadata, "title", "Unknown"),
             text |-> chunks[i].text,
             metadata |-> chunks[i].metadata]]
    ELSE <<>>

\* lines 151-196: steps 6-8 and the response
Finalize ==
    /\ qPc = "finalize"
    /\ stages' = Append(stages, "finalization")
    /\ LET final_response == <<response_text, "---",
                               safety_result.disclaimer_text>>
           citations == Citations(retrieved_chunks,
                                  query_data.include_citations)
           flag == Get(safety_result, "safety_check", None)
           row == [id |-> Len(query_history) + 1,
                   organization_id |-> organization,
                   user_id |-> current_user,
                   query |-> query_data.query,
                   response |-> final_response,
                   intent_classification |-> intent,
                   agents_used |-> agents_used,
                   citations |-> citations,
                   confidence_score |-> Get(verification, "confidence_score", 0),
                   total_tokens |-> total_tokens,
                   cost_estimate |-> total_cost,
                   safety_triggered |-> IF flag # "PASS" THEN flag ELSE None]
       IN /\ query_history' = Append(query_history, row)   \* db.commit()
          /\ IF "safety_check" \in DOMAIN safety_result
             THEN /\ qPc' = "done"
                  /\ response' =
                       [kind |-> "response",
                        query_id |-> row.id,
                        response |-> final_response,
                        intent |-> intent,
                        agents_used |-> agents_used,
                        citations |-> citations,
                        confidence_score |-> row.confidence_score,
                        safety_check |-> safety_result.safety_check,
                        disclaimer |-> safety_result.disclaimer_text,
                        tokens_used |-> total_tokens,
                        cost_estimate |-> total_cost]
             ELSE \* line 191: KeyError after the row was committed
                  /\ qPc' = "error"
                  /\ response' = Unhandled("KeyError")
    /\ UNCHANGED <<query_data, organization, current_user, safety_result,
                   classification, retrieved_chunks, intent, response_text,
                   total_tokens, total_cost, agents_used, verification,
                   invoked, llm_calls>>
    /\ UNCHANGED <<storeVars, embedVars, fnVars, chunkVars,
                   ingestVars>>

----------------------------------------------------------------------------
(* The store a query finds: four states of the vector store that          *)
(* add_documents, save_index, a restart and search lead to                *)

\* nothing was ever ingested
StoreFresh ==
    /\ indexes = EmptyDict /\ metadatas = EmptyDict
    /\ diskIndex = EmptyDict /\ diskMeta = EmptyDict
    /\ s3Index = EmptyDict /\ s3Meta = EmptyDict /\ s3Enabled = FALSE
    /\ addPc = [d \in Docs |-> "new"]
    /\ addOrg = [d \in Docs |-> 0]
    /\ addChunks = [d \in Docs |-> <<>>]
    /\ restarts = 0
    /\ ret = NoRet

\* organization 1 ingested two documents of two chunks each
StoreIngested ==
    LET chunks == ChunksOf(1, 1, MaxChunks) \o ChunksOf(2, 1, MaxChunks)
        vectors == [i \in 1..Len(chunks) |-> EmbedContent(chunks[i].text)]
    IN /\ indexes = [o \in {1} |-> vectors]
       /\ metadatas = [o \in {1} |-> ChunkMetas(chunks)]
       /\ diskIndex = [o \in {1} |-> vectors]
       /\ diskMeta = [o \in {1} |-> MetaFile(ChunkMetas(chunks))]
       /\ s3Index = EmptyDict /\ s3Meta = EmptyDict /\ s3Enabled = FALSE
       /\ addPc = [d \in Docs |-> "done"]
       /\ addOrg = [d \in Docs |-> 1]
       /\ addChunks = [d \in Docs |-> ChunksOf(d, 1, MaxChunks)]
       /\ restarts = 0
       /\ ret = Ret("add", 1, FALSE, TRUE, <<>>)

\* organization 1 ingested one document, the write of the metadata file
\* failed, and the process was restarted
StoreAfterFailedSave ==
    LET chunks == ChunksOf(1, 1, MaxChunks)
        vectors == [i \in 1..Len(chunks) |-> EmbedContent(chunks[i].text)]
    IN /\ indexes = EmptyDict /\ metadatas = EmptyDict
       /\ diskIndex = [o \in {1} |-> vectors]
       /\ diskMeta = [o \in {1} |-> TruncatedFile]
       /\ s3Index = EmptyDict /\ s3Meta = EmptyDict /\ s3Enabled = FALSE
       /\ addPc = [d \in Docs |-> IF d = 1 THEN "done" ELSE "new"]
       /\ addOrg = [d \in Docs |-> IF d = 1 THEN 1 ELSE 0]
       /\ addChunks = [d \in Docs |-> IF d = 1 THEN chunks ELSE <<>>]
       /\ restarts = 1
       /\ ret = NoRet

\* the same, after a first search of organization 1: load_index assigned
\* the index and failed on the metadata file
StoreHalfLoaded ==
    LET chunks == ChunksOf(1, 1, MaxChunks)
        vectors == [i \in 1..Len(chunks) |-> EmbedContent(chunks[i].text)]
    IN /\ indexes = [o \in {1} |-> vectors] /\ metadatas = EmptyDict
       /\ diskIndex = [o \in {1} |-> vectors]
       /\ diskMeta = [o \in {1} |-> TruncatedFile]
       /\ s3Index = EmptyDict /\ s3Meta = EmptyDict /\ s3Enabled = FALSE
       /\ addPc = [d \in Docs |-> IF d = 1 THEN "done" ELSE "new"]
       /\ addOrg = [d \in Docs |-> IF d = 1 THEN 1 ELSE 0]
       /\ addChunks = [d \in Docs |-> IF d = 1 THEN chunks ELSE <<>>]
       /\ restarts = 1
       /\ ret = Ret("search", 1, FALSE, TRUE, <<>>)

InitQuery ==
    /\ NoQuery
    /\ NoEmbed
    /\ NoCall
    /\ NoChunking
    /\ NoUpload
    /\ \/ StoreFresh
       \/ StoreIngested
       \/ StoreAfterFailedSave
       \/ StoreHalfLoaded

NextQuery ==
    \/ \E o \in Orgs, u \in Users, jurisdiction \in Jurisdictions,
          include_citations \in BOOLEAN :
            SubmitQuery(o, u, jurisdiction, include_citations)
    \/ \E reply \in JsonReplies(SafetyObjects) : SafetyCheck(reply)
    \/ \E reply \in JsonReplies(ClassifierObjects) : Classify(reply)
    \/ \E embedOk \in BOOLEAN : Retrieve(embedOk)
    \/ \E reply \in SpecialistReplies : Dispatch(reply)
    \/ \E reply \in JsonReplies(VerifierObjects) : Verify(reply)
    \/ Finalize

SpecQuery == InitQuery /\ [][NextQuery]_vars

----------------------------------------------------------------------------
(* Claims about submit_query, checked under SpecQuery *)

\* C3: when the safety check returned REFUSE, the run has ended with the
\* refusal response: only the safety agent was invoked, the response reports
\* 0 tokens and 0 cost, and it carries the disclaimer.
C3_RefuseShortCircuits ==
    (Len(stages) >= 1 /\ should_refuse(safety_result)) =>
        /\ qPc = "refused"
        /\ invoked = <<"safety_agent.check_safety">>
        /\ response.kind = "response"
        /\ response.intent = "refused"
        /\ response.tokens_used = 0
        /\ response.cost_estimate = 0
        /\ response.disclaimer = LEGAL_DISCLAIMER

\* C4: a run that has ended, normally or by a refusal, has saved exactly one
\* Query Record, for the organization and the user of the request.
C4_OneQueryRecordPerRun ==
    qPc \in {"done", "refused"} =>
        /\ Len(query_history) = 1
        /\ query_history[1].organization_id = organization
        /\ query_history[1].user_id = current_user

\* C5: the stages of a run are entered one at a time in the order safety,
\* classification, retrieval, specialist, verification, finalization: after
\* every step what has been entered is a prefix of that order, and a step
\* that enters a stage appends the next stage of the order, nothing else.
C5_StagesInOrder ==
    [][LET order == <<"safety", "classification", "retrieval", "specialist",
                      "verification", "finalization">>
       IN /\ Len(stages') <= Len(order)
          /\ \A i \in 1..Len(stages') : stages'[i] = order[i]
          /\ stages' # stages =>
                /\ Len(stages) < Len(order)
                /\ stages' = Append(stages, order[Len(stages) + 1])]_vars

C5_Witness ==
    /\ qPc = "done"
    /\ Len(stages) = 6
    /\ stages[6] = "finalization"

C7_SpecialistFailureIsInline ==
    (\E n \in 1..Len(llm_calls) :
        /\ llm_calls[n].caller \notin {"safety", "orchestrator", "verification"}
        /\ llm_calls[n].outcome = "raise") =>
        /\ response_text \in {"Error in statutory interpretation",
                              "Error in case law research",
                              "Error in contract analysis",
                              "Error in compliance check",
                              "Error in hybrid legal agent"}
        /\ total_tokens = 0
        /\ total_cost = 0
        /\ response # Unhandled("RetryError")
        /\ qPc \in {"verify", "finalize", "done"} \/ Len(stages) > 4

\* C8: whatever the safety, classifier and verifier calls returned, the run
\* does not end with an exception from handling their results: a refusal
\* carries a reason and a suggested action, an answer carries the disclaimer
\* and a confidence score.
C8_NoUnhandledException ==
    /\ ~(qPc = "error" /\ stages[Len(stages)] \in {"safety", "finalization"})
    /\ qPc = "refused" =>
            /\ response.kind = "response"
            /\ Len(response.response) = 3
    /\ qPc = "done" =>
            /\ response.kind = "response"
            /\ response.disclaimer = LEGAL_DISCLAIMER
            /\ response.confidence_score \in 0..10

\* C9: when the classifier call raised or its text was no JSON object, the
\* classification is general_legal with agents [retriever, verification,
\* safety] and confidence 0.5, and the run is not aborted.
C9_ClassifierFallbackContinues ==
    (\E n \in 1..Len(llm_calls) :
        /\ llm_calls[n].caller = "orchestrator"
        /\ llm_calls[n].outcome # "object") =>
        /\ classification.intent = "general_legal"
        /\ classification.agents_to_call
              = <<"retriever", "verification", "safety">>
        /\ classification.confidence = 5
        /\ qPc # "error"

\* C10: when the safety call raised or its text was no JSON object, the
\* safety result is WARN with the disclaimer, the run is not aborted, and
\* the Query Record of the finished run carries the WARN flag.
C10_SafetyFallbackContinues ==
    (\E n \in 1..Len(llm_calls) :
        /\ llm_calls[n].caller = "safety"
        /\ llm_calls[n].outcome # "object") =>
        /\ safety_result.safety_check = "WARN"
        /\ safety_result.disclaimer_text = LEGAL_DISCLAIMER
        /\ qPc \notin {"error", "refused"}
        /\ qPc = "done" =>
              /\ Len(query_history) = 1
              /\ query_history[1].safety_triggered = "WARN"

\* C11: when the verifier call raised or its text was no JSON object, the
\* verification is confidence 0.5 with citations_valid false, the run is not
\* aborted, and the response of the finished run reports that confidence.
C11_VerifierFallbackFinalizes ==
    (\E n \in 1..Len(llm_calls) :
        /\ llm_calls[n].caller = "verification"
        /\ llm_calls[n].outcome # "object") =>
        /\ verification.confidence_score = 5
        /\ verification.citations_valid = FALSE
        /\ qPc \in {"finalize", "done"}
        /\ qPc = "done" =>
              /\ response.kind = "response"
              /\ response.confidence_score = 5
              /\ query_history[1].confidence_score = 5

----------------------------------------------------------------------------
(* The same run of submit_query with the retries of chat_completion made   *)
(* visible: a call that returns may have sent 1, 2 or 3 requests to the    *)
(* provider. One organization with an ingested document, or with a         *)
(* half-loaded index, asks.                                                *)

InitCalls ==
    /\ NoQuery
    /\ NoEmbed
    /\ NoCall
    /\ NoChunking
    /\ NoUpload
    /\ \/ StoreIngested
       \/ StoreHalfLoaded

NextCalls ==
    \/ \E u \in Users, jurisdiction \in Jurisdictions :
            SubmitQuery(1, u, jurisdiction, FALSE)
    \/ \E reply \in Retried(JsonReplies(SafetyObjects)) : SafetyCheck(reply)
    \/ \E reply \in Retried(JsonReplies(ClassifierObjects)) : Classify(reply)
    \/ \E embedOk \in BOOLEAN : Retrieve(embedOk)
    \/ \E reply \in Retried(SpecialistReplies) : Dispatch(reply)
    \/ \E reply \in Retried(JsonReplies(VerifierObjects)) : Verify(reply)
    \/ Finalize

SpecCalls == InitCalls /\ [][NextCalls]_vars

\* the stage a call of chat_completion belongs to
StageOfCaller(caller) ==
    CASE caller = "safety" -> "safety"
      [] caller = "orchestrator" -> "classification"
      [] caller = "verification" -> "verification"
      [] OTHER -> "specialist"

LlmStages == {"safety", "classification", "specialist", "verification"}

\* C12: in a run that was not refused, every LLM stage that was entered has
\* made exactly one call and that call sent exactly one request to the
\* provider, retrieval and finalization have made none, and a run that has
\* ended has entered all four LLM stages.
C12_OneLlmCallPerStage ==
    qPc # "refused" =>
        /\ \A st \in LlmStages :
              (\E i \in 1..Len(stages) : stages[i] = st) =>
                  /\ Cardinality({n \in 1..Len(llm_calls) :
                        StageOfCaller(llm_calls[n].caller) = st}) = 1
                  /\ \A n \in 1..Len(llm_calls) :
                        StageOfCaller(llm_calls[n].caller) = st =>
                            llm_calls[n].requests = 1
        /\ Len(llm_calls) =
              Cardinality({i \in 1..Len(stages) : stages[i] \in LlmStages})
        /\ qPc \in {"done", "error"} =>
              \A st \in LlmStages : \E i \in 1..Len(stages) : stages[i] = st

----------------------------------------------------------------------------
(* EmbeddingService, one call followed request by request.  The provider   *)
(* decides each request: a request for a batch of texts succeeds or fails, *)
(* and a single-text call meets a number of failing requests before the    *)
(* first one that succeeds.                                                *)

MaxTexts == 3       \* texts passed to embed_batch
MaxFails == 4       \* consecutive failing requests a single-text call meets

\* _embed_single_with_retry(self, text, max_retries: int = 3)
max_retries == 3

Max(a, b) == IF a > b THEN a ELSE b

\* how a single-text call ended: the requests it sent, the sleeps between them
SingleCall(text, fails, ok, attempts, delays) ==
    [text |-> text, fails |-> fails, ok |-> ok,
     vector |-> IF ok THEN EmbedContent(text) ELSE <<>>,
     attempts |-> attempts, delays |-> delays]

\* lines 171-184: the for loop from `attempt` on (0-based, as in the code),
\* the provider failing the next `left` requests
RECURSIVE SingleFrom(_, _, _, _, _)
SingleFrom(text, fails, left, attempt, delays) ==
    IF left = 0
    THEN SingleCall(text, fails, TRUE, attempt + 1, delays)
    ELSE IF attempt = max_retries - 1
         THEN SingleCall(text, fails, FALSE, attempt + 1, delays)    \* raise
         ELSE SingleFrom(text, fails, left - 1, attempt + 1,
                         Append(delays, 2 ^ attempt))

_embed_single_with_retry(text, fails) == SingleFrom(text, fails, fails, 0, <<>>)

\* tenacity's wait_exponential(multiplier=1, min=2, max=10) after the
\* attempt numbered attempt_number (from 1):
\* max(min, min(multiplier * 2 ** (attempt_number - 1), max))
wait_exponential(attempt_number) ==
    Max(2, Min(1 * 2 ^ (attempt_number - 1), 10))

\* @retry(stop=stop_after_attempt(3), wait=wait_exponential(...)) around
\* one embed_content request
RECURSIVE RetryFrom(_, _, _, _, _)
RetryFrom(text, fails, left, attempt_number, delays) ==
    IF left = 0
    THEN SingleCall(text, fails, TRUE, attempt_number, delays)
    ELSE IF attempt_number >= stop_after_attempt
         THEN SingleCall(text, fails, FALSE, attempt_number, delays)
         ELSE RetryFrom(text, fails, left - 1, attempt_number + 1,
                        Append(delays, wait_exponential(attempt_number)))

embed_text(text, fails) == RetryFrom(text, fails, fails, 1, <<>>)

embed_query(query, fails) == RetryFrom(query, fails, fails, 1, <<>>)

\* lines 17-57: embed_text or embed_query is called and returns or raises
EmbedText(text, fails) ==
    /\ ePc = "idle"
    /\ ePc' = "single_done"
    /\ eTexts' = <<text>>
    /\ \E r \in {embed_text(text, fails)} :
         /\ eLast' = <<r>>
         /\ eEmbeddings' = IF r.ok THEN <<r.vector>> ELSE <<>>
    /\ UNCHANGED <<eI, eSize, eLog, eOrphans, eStray>>
    /\ UNCHANGED <<storeVars, queryVars, fnVars, chunkVars,
                   ingestVars>>

EmbedQuery(query, fails) ==
    /\ ePc = "idle"
    /\ ePc' = "single_done"
    /\ eTexts' = <<query>>
    /\ \E r \in {embed_query(query, fails)} :
         /\ eLast' = <<r>>
         /\ eEmbeddings' = IF r.ok THEN <<r.vector>> ELSE <<>>
    /\ UNCHANGED <<eI, eSize, eLog, eOrphans, eStray>>
    /\ UNCHANGED <<storeVars, queryVars, fnVars, chunkVars,
                   ingestVars>>

\* lines 83-93: embed_batch is called
EmbedBatchStart(n) ==
    /\ ePc = "idle"
    /\ ePc' = "loop"
    /\ eTexts' = ChunkTexts(ChunksOf(1, 1, n))
    /\ eI' = 1
    /\ eSize' = 1
    /\ eEmbeddings' = <<>>
    /\ UNCHANGED <<eLog, eLast, eOrphans, eStray>>
    /\ UNCHANGED <<storeVars, queryVars, fnVars, chunkVars,
                   ingestVars>>

\* lines 101-102: batch_end, as the 1-based position of the last text of
\* the batch
BatchEnd == Min(eI - 1 + batch_sizes[eSize], Len(eTexts))

BatchAttempt(size, ok) == [pos |-> eI, end |-> BatchEnd, size |-> size, ok |-> ok]

\* the text that no batch size worked for is tried again
SkipTo_Stay(i) == i

\* lines 139-143: no batch size worked at position i: i += 1
SkipTo(i) == i + 1

\* the loop going on behind batch_end of the largest batch size
AfterAttempt_StaleEnd(ok) ==
    IF ok
    THEN /\ eI' = Min(eI - 1 + batch_sizes[1], Len(eTexts)) + 1
         /\ eSize' = 1
    ELSE IF eSize < Len(batch_sizes)
         THEN /\ eSize' = eSize + 1
              /\ UNCHANGED eI
         ELSE /\ eI' = SkipTo(eI)
              /\ eSize' = 1

\* lines 97-99 and 134-147: what follows an attempt.  After a success the
\* loop goes on behind the batch; after a failure the next batch size is
\* tried, and after the last one the text at i is skipped.
AfterAttempt(ok) ==
    IF ok
    THEN /\ eI' = BatchEnd + 1
         /\ eSize' = 1
    ELSE IF eSize < Len(batch_sizes)
         THEN /\ eSize' = eSize + 1
              /\ UNCHANGED eI
         ELSE /\ eI' = SkipTo(eI)
              /\ eSize' = 1

\* lines 118-132: one request for the whole batch
TryBatch(ok) ==
    /\ ePc = "loop"
    /\ eI <= Len(eTexts)
    /\ batch_sizes[eSize] \notin {1, 2}
    /\ eLog' = Append(eLog, BatchAttempt(batch_sizes[eSize], ok))
    /\ eLast' = <<>>
    /\ eEmbeddings' = IF ok THEN eEmbeddings \o EmbedSlice(eTexts, eI, BatchEnd)
                      ELSE eEmbeddings
    /\ AfterAttempt(ok)
    /\ UNCHANGED <<ePc, eTexts, eOrphans, eStray>>
    /\ UNCHANGED <<storeVars, queryVars, fnVars, chunkVars,
                   ingestVars>>

\* lines 111-116 and 186-191: asyncio.gather over one single-text call per
\* text of the batch.  When all succeed the vectors come back in the order
\* of the texts.  When a call raises, gather raises at once and does not
\* cancel the other calls: each of them has sent at least one request and
\* may still send up to max_retries - 1 more.
TryParallel(fails) ==
    /\ ePc = "loop"
    /\ eI <= Len(eTexts)
    /\ batch_sizes[eSize] = 2
    /\ \E results \in {[k \in 1..(BatchEnd - eI + 1) |->
                          _embed_single_with_retry(eTexts[eI + k - 1], fails[k])]} :
         IF \A k \in 1..Len(results) : results[k].ok
         THEN /\ eLog' = Append(eLog, BatchAttempt(2, TRUE))
              /\ eLast' = results
              /\ eEmbeddings' = eEmbeddings \o
                                  [k \in 1..Len(results) |-> results[k].vector]
              /\ AfterAttempt(TRUE)
              /\ UNCHANGED eOrphans
         ELSE \E first \in {k \in 1..Len(results) : ~results[k].ok} :
              \E left \in [1..Len(results) \ {first} -> 0..(max_retries - 1)] :
                 /\ eLog' = Append(eLog, BatchAttempt(2, FALSE))
                 /\ eLast' = <<results[first]>>
                 /\ eOrphans' = eOrphans \cup
                       {[pos |-> eI + k - 1, left |-> left[k]] :
                            k \in {j \in DOMAIN left : left[j] > 0}}
                 /\ AfterAttempt(FALSE)
                 /\ UNCHANGED eEmbeddings
    /\ UNCHANGED <<ePc, eTexts, eStray>>
    /\ UNCHANGED <<storeVars, queryVars, fnVars, chunkVars,
                   ingestVars>>

\* lines 105-110: one single-text call for the text at i
TrySingle(fails) ==
    /\ ePc = "loop"
    /\ eI <= Len(eTexts)
    /\ batch_sizes[eSize] = 1
    /\ \E r \in {_embed_single_with_retry(eTexts[eI], fails)} :
         /\ eLog' = Append(eLog, BatchAttempt(1, r.ok))
         /\ eLast' = <<r>>
         /\ eEmbeddings' = IF r.ok THEN Append(eEmbeddings, r.vector)
                           ELSE eEmbeddings
         /\ AfterAttempt(r.ok)
    /\ UNCHANGED <<ePc, eTexts, eOrphans, eStray>>
    /\ UNCHANGED <<storeVars, queryVars, fnVars, chunkVars,
                   ingestVars>>

\* lines 94 and 163: the loop ends, embed_batch returns embeddings
EmbedBatchReturn ==
    /\ ePc = "loop"
    /\ eI > Len(eTexts)
    /\ ePc' = "batch_done"
    /\ UNCHANGED <<eTexts, eI, eSize, eEmbeddings, eLog, eLast, eOrphans,
                   eStray>>
    /\ UNCHANGED <<storeVars, queryVars, fnVars, chunkVars,
                   ingestVars>>

\* lines 171-184, in a task gather left running: its next request.  The
\* result of the task is never read.
OrphanRequest(o, ok) ==
    /\ ePc \in {"loop", "batch_done"}
    /\ o \in eOrphans
    /\ eStray' = eStray \cup {[pos |-> o.pos, late |-> eI > o.pos]}
    /\ eOrphans' = (eOrphans \ {o}) \cup
                      (IF ok \/ o.left = 1 THEN {}
                       ELSE {[pos |-> o.pos, left |-> o.left - 1]})
    /\ UNCHANGED <<ePc, eTexts, eI, eSize, eEmbeddings, eLog, eLast>>
    /\ UNCHANGED <<storeVars, queryVars, fnVars, chunkVars,
                   ingestVars>>

InitEmbed ==
    /\ NoQuery
    /\ NoEmbed
    /\ NoCall
    /\ NoChunking
    /\ NoUpload
    /\ StoreFresh

NextEmbed ==
    \/ \E text \in {TextOf(1, 1)}, fails \in 0..MaxFails : EmbedText(text, fails)
    \/ \E query \in {QueryText}, fails \in 0..MaxFails : EmbedQuery(query, fails)
    \/ \E n \in 0..MaxTexts : EmbedBatchStart(n)
    \/ \E ok \in BOOLEAN : TryBatch(ok)
    \/ \E fails \in [1..2 -> 0..MaxFails] : TryParallel(fails)
    \/ \E fails \in 0..MaxFails : TrySingle(fails)
    \/ EmbedBatchReturn
    \/ \E o \in eOrphans, ok \in BOOLEAN : OrphanRequest(o, ok)

SpecEmbed == InitEmbed /\ [][NextEmbed]_vars

\* the oracle of embed_batch(texts, oracle) that a finished loop has followed
OracleOfLog ==
    [p \in 1..Len(eTexts) |->
        IF \E n \in 1..Len(eLog) : eLog[n].pos = p /\ eLog[n].ok
        THEN eLog[CHOOSE n \in 1..Len(eLog) : eLog[n].pos = p /\ eLog[n].ok].size
        ELSE 0]

\* the loop followed request by request returns what embed_batch(texts,
\* oracle) computes
EmbedLoopAgrees ==
    ePc = "batch_done" => eEmbeddings = embed_batch(eTexts, OracleOfLog)

----------------------------------------------------------------------------
(* Claims about the EmbeddingService, checked under SpecEmbed *)

SizeFailsAt(size) ==
    \A n \in 1..Len(eLog) : eLog[n].size = size => ~eLog[n].ok

\* C13: when embed_batch has returned and every attempt at batch size 5 and
\* at batch size 2 failed while every call at batch size 1 succeeded, the
\* result has one vector per input text and vector i is the embedding of
\* text i.
C13_SingleFallbackKeepsPositions ==
    (/\ ePc = "batch_done"
     /\ SizeFailsAt(5)
     /\ SizeFailsAt(2)
     /\ \A n \in 1..Len(eLog) : eLog[n].size = 1 => eLog[n].ok) =>
        /\ Len(eEmbeddings) = Len(eTexts)
        /\ \A p \in 1..Len(eTexts) : eEmbeddings[p] = EmbedContent(eTexts[p])

C13_Witness ==
    /\ ePc = "batch_done"
    /\ Len(eTexts) = MaxTexts
    /\ Len(eLog) = 3 * MaxTexts
    /\ SizeFailsAt(5)
    /\ SizeFailsAt(2)
    /\ \A n \in 1..Len(eLog) : eLog[n].size = 1 => eLog[n].ok
    /\ Len(eEmbeddings) = MaxTexts

\* the positions whose text was given up: the call at batch size 1 failed
Skipped == {eLog[n].pos : n \in {m \in 1..Len(eLog) :
                                    eLog[m].size = 1 /\ ~eLog[m].ok}}

RECURSIVE EmbedOthers(_, _, _)
EmbedOthers(texts, skipped, p) ==
    IF p > Len(texts) THEN <<>>
    ELSE (IF p \in skipped THEN <<>> ELSE <<EmbedContent(texts[p])>>)
            \o EmbedOthers(texts, skipped, p + 1)

\* C14: when every batch size has failed at a position, the loop goes on
\* with the next position, no later attempt and no later request is for
\* the text given up, and the result of embed_batch is the vectors of all
\* other texts in their order.
C14_SkipOmitsOnlyThatText ==
    /\ \A n \in 1..Len(eLog) :
          (eLog[n].size = 1 /\ ~eLog[n].ok) =>
              /\ \A m \in (n + 1)..Len(eLog) : eLog[m].pos > eLog[n].pos
              /\ IF n < Len(eLog) THEN eLog[n + 1].pos = eLog[n].pos + 1
                 ELSE eI = eLog[n].pos + 1
    /\ \A r \in eStray : r.late => r.pos \notin Skipped
    /\ ePc = "batch_done" =>
          /\ eEmbeddings = EmbedOthers(eTexts, Skipped, 1)
          /\ Skipped # {} => Len(eEmbeddings) < Len(eTexts)

\* C15: a single-text call sends at most 3 requests, sleeps between them
\* with each delay the double of the one before, returns the vector of the
\* first request that succeeded, and raises after a third failed request.
C15_SingleRetryDoubles ==
    \A k \in 1..Len(eLast) :
        LET c == eLast[k]
        IN /\ c.attempts <= 3
           /\ Len(c.delays) = c.attempts - 1
           /\ \A a \in 2..Len(c.delays) : c.delays[a] = 2 * c.delays[a - 1]
           /\ c.ok => /\ c.attempts = c.fails + 1
                      /\ c.vector = EmbedContent(c.text)
           /\ ~c.ok => /\ c.attempts = 3
                       /\ c.fails >= 3

----------------------------------------------------------------------------
(* VectorStore.search on a loaded index, as a function of the index, the   *)
(* metadata list, top_k and the filters                                    *)

MaxIndex == 4       \* vectors in the index

IndexTexts == {TextOf(1, 1), TextOf(1, 2), TextOf(1, 4)}

\* metadata of the chunk at a position, with or without a jurisdiction
MetadataOf(pos, j) ==
    IF j = None THEN [chunk_index |-> pos]
    ELSE [chunk_index |-> pos, jurisdiction |-> j]

SearchFilters ==
    Filters \cup {[k \in {"jurisdiction", "chunk_index"} |->
                      IF k = "jurisdiction" THEN "US" ELSE 2]}

\* an index of n vectors with a metadata list of m entries
SearchArgsOf(n, m) ==
    {[op |-> "search", index |-> [p \in 1..n |-> EmbedContent(texts[p])],
      metadatas |-> [p \in 1..m |-> MetadataOf(p, js[p])],
      query |-> q, top_k |-> top_k, filters |-> filters] :
        texts \in [1..n -> IndexTexts], js \in [1..m -> {"US", "IN", None}],
        q \in QueryTexts, top_k \in 1..MaxTopK, filters \in SearchFilters}

InitSearch ==
    /\ NoQuery
    /\ NoEmbed
    /\ StoreFresh
    /\ NoChunking
    /\ NoUpload
    \* up to MaxIndex vectors, the metadata list as long as the index or
    \* one entry shorter
    /\ \E n \in 0..MaxIndex : \E m \in {n, n - 1} \cap (0..n) :
          fnArgs \in SearchArgsOf(n, m)
    /\ fnResult = EmptyDict

\* lines 257-297: search with organization 1 loaded as the arguments say
\* and the query embedded
ApplySearch ==
    /\ fnArgs.op = "search"
    /\ fnResult = EmptyDict
    /\ \E r \in {SearchFrom([ok |-> TRUE,
                             indexes |-> [o \in {1} |-> fnArgs.index],
                             metadatas |-> [o \in {1} |-> fnArgs.metadatas],
                             diskIndex |-> EmptyDict, diskMeta |-> EmptyDict],
                            1, fnArgs.query, fnArgs.top_k, fnArgs.filters,
                            TRUE)} :
         fnResult' = [raised |-> r.raised, results |-> r.results]
    /\ UNCHANGED fnArgs
    /\ UNCHANGED <<storeVars, queryVars, embedVars, chunkVars,
                   ingestVars>>

NextSearch == ApplySearch

SpecSearch == InitSearch /\ [][NextSearch]_vars

\* distance of the vector at a position of the index from the query
DistAt(p) == SqDist(fnArgs.index[p], EmbedContent(fnArgs.query))

\* the position has metadata and its metadata has every filter key with
\* the filter's value
Passes(p) ==
    /\ p <= Len(fnArgs.metadatas)
    /\ \A key \in DOMAIN fnArgs.filters :
          /\ key \in DOMAIN fnArgs.metadatas[p]
          /\ fnArgs.metadatas[p][key] = fnArgs.filters[key]

search_k == Min(fnArgs.top_k * 3, Len(fnArgs.index))

\* C17: search returns at most top_k results; the metadata of every result
\* has every filter key with the filter's value; the results are entries of
\* the index with their metadata, in ascending distance, all among the
\* min(3 * top_k, size) nearest neighbours; and a filter-passing entry that
\* is among those neighbours is left out only when top_k results at most as
\* far as it were returned.
C17_SearchFiltersOverFetched ==
    (fnResult # EmptyDict /\ fnArgs.op = "search") =>
        LET res == fnResult.results
            pos(j) == res[j].index + 1
        IN /\ ~fnResult.raised
           /\ Len(res) <= fnArgs.top_k
           /\ \A j \in 1..Len(res) :
                 /\ pos(j) \in 1..Len(fnArgs.index)
                 /\ Passes(pos(j))
                 /\ res[j].metadata = fnArgs.metadatas[pos(j)]
                 /\ res[j].score = DistAt(pos(j))
                 /\ Cardinality({p \in 1..Len(fnArgs.index) :
                        DistAt(p) < DistAt(pos(j))}) < search_k
                 /\ \A i \in 1..(j - 1) :
                       /\ res[i].score <= res[j].score
                       /\ pos(i) # pos(j)
           /\ \A p \in 1..Len(fnArgs.index) :
                 (/\ Passes(p)
                  /\ Cardinality({p2 \in 1..Len(fnArgs.index) \ {p} :
                        DistAt(p2) <= DistAt(p)}) < search_k
                  /\ \A j \in 1..Len(res) : pos(j) # p) =>
                     /\ Len(res) = fnArgs.top_k
                     /\ \A j \in 1..Len(res) : res[j].score <= DistAt(p)

\* a search with a filter over an index larger than 3 * top_k, where the
\* nearest entry lacks the filter key, the result is a farther entry, and a
\* passing entry lies outside the neighbours fetched
C17_Witness ==
    /\ fnResult # EmptyDict
    /\ fnArgs.op = "search"
    /\ DOMAIN fnArgs.filters # {}
    /\ Len(fnArgs.index) > 3 * fnArgs.top_k
    /\ Len(fnResult.results) = fnArgs.top_k
    /\ \E p \in 1..Len(fnArgs.metadatas) :
          /\ "jurisdiction" \notin DOMAIN fnArgs.metadatas[p]
          /\ DistAt(p) < fnResult.results[1].score
    /\ \E p \in 1..Len(fnArgs.index) :
          /\ Passes(p)
          /\ Cardinality({p2 \in 1..Len(fnArgs.index) :
                DistAt(p2) < DistAt(p)}) >= search_k

----------------------------------------------------------------------------
(* The selection of retrieve_with_mmr, as a function of the candidate pool *)
(* that retrieve returned, target_k and the diversity weight               *)

MaxPool == 4        \* candidates in the pool
MaxTargetK == 3     \* largest target_k

PoolTexts == {TextOf(1, 1), TextOf(1, 2), TextOf(2, 1)}

PoolScores == {0, 9, 36}

DiversityScores == {Frac(0, 1), MMR_DIVERSITY_SCORE, Frac(1, 1)}

\* what retrieve returns for search results at the given distances: the
\* candidates in ascending distance, each knowing its position in the pool
PoolOf(n, texts, scores) ==
    Enrich([p \in 1..n |->
               [metadata |-> [text |-> texts[p], chunk_index |-> p],
                score |-> scores[p], index |-> p - 1]])

InitMmr ==
    /\ NoQuery
    /\ NoEmbed
    /\ StoreFresh
    /\ NoChunking
    /\ NoUpload
    /\ fnResult = EmptyDict
    /\ \E target_k \in 1..MaxTargetK, diversity_score \in DiversityScores :
       \* initial_k = target_k * 2 bounds the pool
       \E n \in 0..Min(MaxPool, 2 * target_k) :
       \E texts \in [1..n -> PoolTexts] :
       \E scores \in {f \in [1..n -> PoolScores] :
                         \A p \in 1..(n - 1) : f[p] <= f[p + 1]} :
          fnArgs = [op |-> "mmr", results |-> PoolOf(n, texts, scores),
                    target_k |-> target_k,
                    diversity_score |-> diversity_score]

\* lines 103-135 on the pool
ApplyMmr ==
    /\ fnArgs.op = "mmr"
    /\ fnResult = EmptyDict
    /\ fnResult' = [results |-> MmrSelect(fnArgs.results, fnArgs.target_k,
                                          fnArgs.diversity_score)]
    /\ UNCHANGED fnArgs
    /\ UNCHANGED <<storeVars, queryVars, embedVars, chunkVars,
                   ingestVars>>

NextMmr == ApplyMmr

SpecMmr == InitMmr /\ [][NextMmr]_vars

\* C20: retrieve_with_mmr returns min(target_k, pool size) results, none
\* for an empty pool; every result is the candidate at some position of the
\* pool and no two results come from the same position.
C20_MmrSelectsDistinctCandidates ==
    (fnResult # EmptyDict /\ fnArgs.op = "mmr") =>
        LET res == fnResult.results
            pool == fnArgs.results
        IN /\ Len(res) = Min(fnArgs.target_k, Len(pool))
           /\ Len(res) <= fnArgs.target_k
           /\ Len(pool) = 0 => res = <<>>
           /\ \A j \in 1..Len(res) :
                 /\ res[j].metadata.chunk_index \in 1..Len(pool)
                 /\ res[j] = pool[res[j].metadata.chunk_index]
                 /\ \A i \in 1..(j - 1) :
                       res[i].metadata.chunk_index # res[j].metadata.chunk_index

\* a pool larger than target_k holding the same text at two positions,
\* where the selection is not the first target_k candidates
C20_Witness ==
    /\ fnResult # EmptyDict
    /\ fnArgs.op = "mmr"
    /\ Len(fnArgs.results) > fnArgs.target_k
    /\ fnArgs.target_k >= 2
    /\ Len(fnResult.results) = fnArgs.target_k
    /\ \E p \in 1..Len(fnArgs.results) : \E q \in 1..(p - 1) :
          fnArgs.results[p].text = fnArgs.results[q].text
    /\ fnResult.results
          # SubSeq(fnArgs.results, 1, fnArgs.target_k)

\* C21: with diversity weight 0 the selection is the first target_k
\* candidates of the pool, which retrieve returns in descending relevance,
\* candidates of equal relevance staying in pool order.
C21_ZeroDiversityIsTopK ==
    (/\ fnResult # EmptyDict
     /\ fnArgs.op = "mmr"
     /\ fnArgs.diversity_score = Frac(0, 1)) =>
        fnResult.results
            = SubSeq(fnArgs.results, 1,
                     Min(fnArgs.target_k, Len(fnArgs.results)))

\* a selection with weight 0 from a pool larger than target_k that holds
\* two candidates of equal relevance and, among the first target_k, two
\* with the same text
C21_Witness ==
    /\ fnResult # EmptyDict
    /\ fnArgs.op = "mmr"
    /\ fnArgs.diversity_score = Frac(0, 1)
    /\ fnArgs.target_k >= 2
    /\ Len(fnArgs.results) > fnArgs.target_k
    /\ Len(fnResult.results) = fnArgs.target_k
    /\ \E p \in 2..Len(fnArgs.results) :
          fnArgs.results[p].relevance_score
              = fnArgs.results[p - 1].relevance_score
    /\ fnArgs.results[1].text = fnArgs.results[2].text
    /\ fnArgs.results[3].text # fnArgs.results[1].text

----------------------------------------------------------------------------
(* LegalDocumentChunker (app/rag/chunker.py)                               *)
(* A text is a sequence of characters of a small alphabet: "S" stands for  *)
(* the keyword Section, "1" for a digit, "." for a full stop, " " and the  *)
(* newline for whitespace.  The markers are those of the alphabet:         *)
(* "Section \d+" of split_pattern and section_patterns, and the numbered   *)
(* heading "\d+\.\s+[A-Z]" that only section_patterns has.                 *)

MaxText == 5        \* characters of a text
MaxChunkSize == 4   \* largest chunk_size
MaxOut == 8         \* chunks one loop appends before it is cut off

Newline == "\n"
Chars == {"S", "1", ".", " "}
IsSpace(c) == c \in {" ", Newline}

\* str.split(): the maximal runs of characters that are not whitespace
RECURSIVE SplitFrom(_, _, _, _)
SplitFrom(s, i, cur, acc) ==
    IF i > Len(s) THEN (IF cur = <<>> THEN acc ELSE Append(acc, cur))
    ELSE IF IsSpace(s[i])
         THEN SplitFrom(s, i + 1, <<>>,
                        IF cur = <<>> THEN acc ELSE Append(acc, cur))
         ELSE SplitFrom(s, i + 1, Append(cur, s[i]), acc)

Split(s) == SplitFrom(s, 1, <<>>, <<>>)

\* " ".join(words)
RECURSIVE Join(_)
Join(ws) ==
    IF Len(ws) = 0 THEN <<>>
    ELSE IF Len(ws) = 1 THEN ws[1]
         ELSE ws[1] \o <<" ">> \o Join(Tail(ws))

\* words[a:b], a Python slice
Slice(s, a, b) ==
    LET n == Len(s)
        norm(i) == IF i < 0 THEN Max(0, n + i) ELSE Min(i, n)
    IN SubSeq(s, norm(a) + 1, norm(b))

\* "Section \d+" matched at position i: the position of its last digit,
\* or 0 without a match
RECURSIVE DigitsEnd(_, _)
DigitsEnd(s, i) ==
    IF i + 1 <= Len(s) /\ s[i + 1] = "1" THEN DigitsEnd(s, i + 1) ELSE i

MarkerEnd(s, i) ==
    IF /\ i + 2 <= Len(s)
       /\ s[i] = "S"
       /\ s[i + 1] = " "
       /\ s[i + 2] = "1"
    THEN DigitsEnd(s, i + 2)
    ELSE 0

\* line 77: self.split_pattern.match(part)
MatchesMarker(part) == Len(part) > 0 /\ MarkerEnd(part, 1) > 0

\* "\d+\.\s+[A-Z]" found somewhere in s
HasNumberedHeading(s) ==
    \E i \in 1..Len(s) : \E j \in (i + 1)..Len(s) : \E k \in (j + 2)..Len(s) :
        /\ \A x \in i..(j - 1) : s[x] = "1"
        /\ s[j] = "."
        /\ \A x \in (j + 1)..(k - 1) : IsSpace(s[x])
        /\ s[k] = "S"

\* lines 55-60
_has_section_markers(text) ==
    \/ \E i \in 1..Len(text) : MarkerEnd(text, i) > 0
    \/ HasNumberedHeading(text)

\* line 71: self.split_pattern.split(text), the markers kept as parts
RECURSIVE PatternSplit(_, _, _, _)
PatternSplit(s, i, from, acc) ==
    IF i > Len(s) THEN Append(acc, SubSeq(s, from, Len(s)))
    ELSE LET e == MarkerEnd(s, i)
         IN IF e > 0
            THEN PatternSplit(s, e + 1, e + 1,
                              acc \o <<SubSeq(s, from, i - 1), SubSeq(s, i, e)>>)
            ELSE PatternSplit(s, i + 1, from, acc)

\* lines 118-119 and 162, 174: int(tokens * 0.75), for tokens >= 0
WordsFor(tokens) == (tokens * 3) \div 4

\* the stride without its floor of 1
Stride_NoFloor(words_per_chunk, words_overlap) ==
    words_per_chunk - words_overlap

\* lines 145-147 and 175: stride = max(1, words_per_chunk - words_overlap)
Stride(words_per_chunk, words_overlap) ==
    Max(1, words_per_chunk - words_overlap)

\* lines 129-136: a chunk of _chunk_by_tokens
TokenChunk(chunk_text, metadata, chunk_index) ==
    [text |-> chunk_text,
     metadata |-> DictSet(DictSet(metadata, "chunk_index", chunk_index),
                          "chunk_type", "token_based")]

\* lines 165-170: the single chunk of a text that fits
SectionChunk(text, metadata, section_name) ==
    [text |-> text, metadata |-> DictSet(metadata, "section", section_name)]

\* lines 185-192: a chunk of the loop of _split_long_text
SubChunk(chunk_text, metadata, section_name, sub_index) ==
    [text |-> chunk_text,
     metadata |-> DictSet(DictSet(metadata, "section", section_name),
                          "sub_chunk", sub_index)]

InitChunk ==
    /\ NoQuery
    /\ NoEmbed
    /\ StoreFresh
    /\ NoUpload
    /\ \E n \in 1..MaxText : \E t \in [1..n -> Chars] :
       \E cs \in 1..MaxChunkSize, co \in {0, 2, 4} :
          fnArgs = [op |-> "chunk", text |-> t, chunk_size |-> cs,
                    chunk_overlap |-> co, metadata |-> [document_id |-> 1]]
    /\ fnResult = EmptyDict
    /\ cPc = "call"
    /\ cParts = <<>>
    /\ cPart = 1
    /\ cSection = None
    /\ cCurrent = <<>>
    /\ cWords = <<>>
    /\ cStart = 0
    /\ cChunks = <<>>
    /\ cSub = <<>>
    /\ cAfter = "return"

\* lines 45-53 and the entry of the path taken: lines 68-74 or 102-122
ChunkDocument ==
    /\ cPc = "call"
    /\ IF _has_section_markers(fnArgs.text)
       THEN /\ cPc' = "sections"
            /\ cParts' = PatternSplit(fnArgs.text, 1, 1, <<>>)
            /\ cWords' = <<>>
            /\ fnResult' = fnResult
       ELSE LET words == Split(fnArgs.text)
            IN /\ cParts' = <<>>
               /\ cWords' = words
               /\ IF Len(words) = 0
                  THEN /\ cPc' = "done"                 \* line 114
                       /\ fnResult' = [chunks |-> <<>>]
                  ELSE /\ cPc' = "window"
                       /\ fnResult' = fnResult
    /\ UNCHANGED <<cPart, cSection, cCurrent, cStart, cChunks, cSub, cAfter>>
    /\ UNCHANGED fnArgs
    /\ UNCHANGED <<storeVars, queryVars, embedVars, ingestVars>>

\* lines 124-151: one turn of the while loop of _chunk_by_tokens
WindowStep ==
    /\ cPc = "window"
    /\ cStart < Len(cWords)
    /\ Len(cChunks) < MaxOut
    /\ LET total_words == Len(cWords)
           words_per_chunk == WordsFor(fnArgs.chunk_size)
           words_overlap == WordsFor(fnArgs.chunk_overlap)
           end == Min(cStart + words_per_chunk, total_words)
           chunk_text == Join(Slice(cWords, cStart, end))
           chunks == Append(cChunks,
                            TokenChunk(chunk_text, fnArgs.metadata,
                                       Len(cChunks)))
           start == cStart + Stride(words_per_chunk, words_overlap)
       IN /\ cChunks' = chunks
          /\ IF end >= total_words \/ ~(start < total_words)
             THEN /\ cPc' = "done"
                  /\ fnResult' = [chunks |-> chunks]
                  /\ cStart' = IF end >= total_words THEN cStart ELSE start
             ELSE /\ cPc' = "window"
                  /\ fnResult' = fnResult
                  /\ cStart' = start
    /\ UNCHANGED <<cParts, cPart, cSection, cCurrent, cWords, cSub, cAfter>>
    /\ UNCHANGED fnArgs
    /\ UNCHANGED <<storeVars, queryVars, embedVars, ingestVars>>

\* lines 160-178: _split_long_text is entered with text; fits tells whether
\* it returns the text as a single chunk
Fits(text) == Len(Split(text)) <= WordsFor(fnArgs.chunk_size)

\* lines 76-86: one part of the for loop of _chunk_by_sections
SectionsPart ==
    /\ cPc = "sections"
    /\ cPart <= Len(cParts)
    /\ LET part == cParts[cPart]
       IN IF MatchesMarker(part)
          THEN IF cCurrent # <<>> /\ ~Fits(cCurrent)
               THEN \* the window loop of _split_long_text starts
                    /\ cPc' = "split"
                    /\ cWords' = Split(cCurrent)
                    /\ cStart' = 0
                    /\ cSub' = <<>>
                    /\ cAfter' = "part"
                    /\ UNCHANGED <<cPart, cSection, cCurrent, cChunks>>
               ELSE /\ cChunks' = IF cCurrent # <<>>
                                  THEN Append(cChunks,
                                           SectionChunk(cCurrent,
                                               fnArgs.metadata, cSection))
                                  ELSE cChunks
                    /\ cSection' = part
                    /\ cCurrent' = part \o <<Newline>>
                    /\ cPart' = cPart + 1
                    /\ UNCHANGED <<cPc, cWords, cStart, cSub, cAfter>>
          ELSE /\ cCurrent' = cCurrent \o part
               /\ cPart' = cPart + 1
               /\ UNCHANGED <<cPc, cSection, cWords, cStart, cChunks, cSub,
                              cAfter>>
    /\ UNCHANGED cParts
    /\ UNCHANGED <<fnArgs, fnResult>>
    /\ UNCHANGED <<storeVars, queryVars, embedVars, ingestVars>>

\* lines 88-94: the last section is saved and the chunks are returned
SectionsEnd ==
    /\ cPc = "sections"
    /\ cPart > Len(cParts)
    /\ IF cCurrent # <<>> /\ ~Fits(cCurrent)
       THEN /\ cPc' = "split"
            /\ cWords' = Split(cCurrent)
            /\ cStart' = 0
            /\ cSub' = <<>>
            /\ cAfter' = "return"
            /\ UNCHANGED <<cChunks, fnResult>>
       ELSE LET chunks == IF cCurrent # <<>>
                          THEN Append(cChunks,
                                   SectionChunk(cCurrent, fnArgs.metadata,
                                                cSection))
                          ELSE cChunks
            IN /\ cChunks' = chunks
               /\ cPc' = "done"
               /\ fnResult' = [chunks |-> chunks]
               /\ UNCHANGED <<cWords, cStart, cSub, cAfter>>
    /\ UNCHANGED <<cParts, cPart, cSection, cCurrent>>
    /\ UNCHANGED fnArgs
    /\ UNCHANGED <<storeVars, queryVars, embedVars, ingestVars>>

\* lines 180-201: one turn of the while loop of _split_long_text; after the
\* last one chunks.extend(...) of line 80 or 90 and what follows it
SplitStep ==
    /\ cPc = "split"
    /\ cStart < Len(cWords)
    /\ Len(cSub) < MaxOut
    /\ LET total_words == Len(cWords)
           words_per_chunk == WordsFor(fnArgs.chunk_size)
           words_overlap == WordsFor(fnArgs.chunk_overlap)
           end == Min(cStart + words_per_chunk, total_words)
           chunk_text == Join(Slice(cWords, cStart, end))
           sub == Append(cSub, SubChunk(chunk_text, fnArgs.metadata,
                                        cSection, Len(cSub)))
           start == cStart + Stride(words_per_chunk, words_overlap)
       IN IF end >= total_words \/ ~(start < total_words)
          THEN /\ cSub' = <<>>
               /\ cWords' = <<>>
               /\ cStart' = 0
               /\ cChunks' = cChunks \o sub
               /\ IF cAfter = "part"
                  THEN /\ cSection' = cParts[cPart]
                       /\ cCurrent' = cParts[cPart] \o <<Newline>>
                       /\ cPart' = cPart + 1
                       /\ cPc' = "sections"
                       /\ fnResult' = fnResult
                  ELSE /\ cPc' = "done"
                       /\ fnResult' = [chunks |-> cChunks \o sub]
                       /\ UNCHANGED <<cSection, cCurrent, cPart>>
          ELSE /\ cSub' = sub
               /\ cStart' = start
               /\ UNCHANGED <<cPc, cWords, cChunks, cSection, cCurrent,
                              cPart, fnResult>>
    /\ UNCHANGED <<cParts, cAfter>>
    /\ UNCHANGED fnArgs
    /\ UNCHANGED <<storeVars, queryVars, embedVars, ingestVars>>

NextChunk ==
    \/ ChunkDocument
    \/ WindowStep
    \/ SectionsPart
    \/ SectionsEnd
    \/ SplitStep

SpecChunk == InitChunk /\ [][NextChunk]_vars

\* chunk_document is synchronous code: once called, it runs its next
\* statement until it returns
SpecChunkRuns == SpecChunk /\ WF_vars(NextChunk)

\* C22: for every text, chunk_size and chunk_overlap, an overlap of at
\* least the window size included, the call of the chunker returns, and as
\* long as a window loop of _chunk_by_tokens or _split_long_text runs, each
\* of its turns moves start forward by at least 1 word.
C22_ChunkingTerminates ==
    /\ <>(cPc = "done")
    /\ [][(cPc \in {"window", "split"} /\ cPc' = cPc) =>
              cStart' >= cStart + 1]_vars

\* the sliding window has returned three chunks or more with an overlap of
\* at least the window size
C22_Witness ==
    /\ cPc = "done"
    /\ WordsFor(fnArgs.chunk_size) >= 1
    /\ WordsFor(fnArgs.chunk_overlap) >= WordsFor(fnArgs.chunk_size)
    /\ Len(fnResult.chunks) >= 3
    /\ "chunk_index" \in DOMAIN fnResult.chunks[3].metadata

\* ws is ws2 with some of its elements left out
RECURSIVE IsSubsequence(_, _)
IsSubsequence(ws, ws2) ==
    IF Len(ws) = 0 THEN TRUE
    ELSE IF Len(ws2) = 0 THEN FALSE
         ELSE IF ws[1] = ws2[1] THEN IsSubsequence(Tail(ws), Tail(ws2))
              ELSE IsSubsequence(ws, Tail(ws2))

\* C23: on both paths, every whitespace-delimited word of the input occurs
\* in at least one chunk chunk_document returned, and the words of each
\* chunk are words of the input in their original order.
C23_ChunksCoverEveryWord ==
    cPc = "done" =>
        LET words == Split(fnArgs.text)
            chunkWords(k) == Split(fnResult.chunks[k].text)
        IN /\ \A w \in 1..Len(words) :
                 \E k \in 1..Len(fnResult.chunks) :
                    \E p \in 1..Len(chunkWords(k)) :
                       chunkWords(k)[p] = words[w]
           /\ \A k \in 1..Len(fnResult.chunks) :
                 IsSubsequence(chunkWords(k), words)

----------------------------------------------------------------------------
(* Document ingestion (app/api/documents.py): POST /documents/upload       *)
(* creates the row and schedules process_document_task, which runs in the  *)
(* steps between which the event loop runs other coroutines and which      *)
(* calls VectorStore.add_documents.  processing_status is the attribute    *)
(* the task assigns to its Document object; a row starts with the          *)
(* column's default 'queued' (db/base.py).                                 *)

\* the row upload_document adds: lines 179-195
NewDocument(o) ==
    [organization_id |-> o, processing_status |-> "queued",
     processed |-> FALSE, processing_error |-> None, chunk_count |-> 0]

Running == {"extract", "chunk", "embed"}

\* lines 143-205: a rejected upload raises HTTPException and adds no row;
\* an accepted one needs s3_service.enabled
UploadDocument(d, o, accepted) ==
    /\ d \notin DOMAIN documents
    /\ taskPc[d] = "none"
    /\ IF accepted
       THEN /\ s3Enabled
            /\ documents' = DictSet(documents, d, NewDocument(o))
            /\ taskPc' = [taskPc EXCEPT ![d] = "scheduled"]
            /\ ret' = Ret("upload", o, FALSE, TRUE, <<>>)
       ELSE /\ ret' = Ret("upload", o, TRUE, FALSE, <<>>)
            /\ UNCHANGED <<documents, taskPc>>
    /\ UNCHANGED <<taskChunks, overlapped>>
    /\ UNCHANGED <<indexes, metadatas, diskIndex, diskMeta, s3Index, s3Meta,
                   s3Enabled, addPc, addOrg, addChunks, restarts>>
    /\ UNCHANGED <<queryVars, embedVars, fnVars, chunkVars>>

\* lines 253-297: DELETE /documents/{id} deletes the file and the row
DeleteUploaded(d) ==
    /\ d \in DOMAIN documents
    /\ taskPc[d] \in {"scheduled", "done"}
    /\ documents' = [e \in (DOMAIN documents) \ {d} |-> documents[e]]
    /\ ret' = DeleteRet("delete_endpoint", documents[d].organization_id, d,
                        FALSE, TRUE)
    /\ UNCHANGED <<taskPc, taskChunks, overlapped>>
    /\ UNCHANGED <<indexes, metadatas, diskIndex, diskMeta, s3Index, s3Meta,
                   s3Enabled, addPc, addOrg, addChunks, restarts>>
    /\ UNCHANGED <<queryVars, embedVars, fnVars, chunkVars>>

\* lines 40-54: the task fetches the row and sets "extracting"
TaskBegin(d) ==
    /\ taskPc[d] = "scheduled"
    /\ IF d \notin DOMAIN documents
       THEN /\ taskPc' = [taskPc EXCEPT ![d] = "done"]      \* lines 46-48
            /\ UNCHANGED <<documents, overlapped>>
       ELSE /\ documents' = [documents EXCEPT
                                ![d].processing_status = "extracting"]
            /\ taskPc' = [taskPc EXCEPT ![d] = "extract"]
            /\ overlapped' = (overlapped \/ \E e \in Docs \ {d} :
                                                taskPc[e] \in Running)
    /\ UNCHANGED taskChunks
    /\ UNCHANGED <<storeVars, queryVars, embedVars, fnVars, chunkVars>>

\* lines 55-71 with a failed extraction put back to 'queued'
TaskExtract_Requeue(d, extracted) ==
    /\ taskPc[d] = "extract"
    /\ IF extracted
       THEN /\ documents' = [documents EXCEPT
                                ![d].processing_status = "chunking"]
            /\ taskPc' = [taskPc EXCEPT ![d] = "chunk"]
       ELSE /\ documents' = [documents EXCEPT
                                ![d].processing_status = "queued",
                                ![d].processing_error = "extract_text raised"]
            /\ taskPc' = [taskPc EXCEPT ![d] = "done"]
    /\ UNCHANGED <<taskChunks, overlapped>>
    /\ UNCHANGED <<storeVars, queryVars, embedVars, fnVars, chunkVars>>

\* lines 55-71: extract_text and extract_metadata, then "chunking"; an
\* exception goes to lines 122-125
TaskExtract(d, extracted) ==
    /\ taskPc[d] = "extract"
    /\ IF extracted
       THEN /\ documents' = [documents EXCEPT
                                ![d].processing_status = "chunking"]
            /\ taskPc' = [taskPc EXCEPT ![d] = "chunk"]
       ELSE /\ documents' = [documents EXCEPT
                                ![d].processing_error = "extract_text raised"]
            /\ taskPc' = [taskPc EXCEPT ![d] = "done"]
    /\ UNCHANGED <<taskChunks, overlapped>>
    /\ UNCHANGED <<storeVars, queryVars, embedVars, fnVars, chunkVars>>

\* lines 72-98: chunk_document returns n chunks, then "embedding"
TaskChunk(d, n) ==
    /\ taskPc[d] = "chunk"
    /\ documents' = [documents EXCEPT ![d].processing_status = "embedding"]
    /\ taskChunks' = [taskChunks EXCEPT ![d] = n]
    /\ taskPc' = [taskPc EXCEPT ![d] = "embed"]
    /\ UNCHANGED overlapped
    /\ UNCHANGED <<storeVars, queryVars, embedVars, fnVars, chunkVars>>

\* line 100: the task calls add_documents with its chunks
TaskAdd(d) ==
    /\ taskPc[d] = "embed"
    /\ AddStart(d, documents[d].organization_id, taskChunks[d])

\* lines 104-120: add_documents returned success
TaskFinish(d) ==
    /\ taskPc[d] = "embed"
    /\ addPc[d] \in {"done", "failed"}
    /\ LET success == (addPc[d] = "done")
       IN IF success
          THEN documents' = [documents EXCEPT
                                ![d].processing_status = "completed",
                                ![d].processed = TRUE,
                                ![d].chunk_count = taskChunks[d]]
          ELSE documents' = [documents EXCEPT
                                ![d].processing_error =
                                    "Failed to add to vector store"]
    /\ taskPc' = [taskPc EXCEPT ![d] = "done"]
    /\ UNCHANGED <<taskChunks, overlapped>>
    /\ UNCHANGED <<storeVars, queryVars, embedVars, fnVars, chunkVars>>

InitIngest ==
    /\ NoQuery
    /\ NoEmbed
    /\ NoCall
    /\ NoChunking
    /\ NoUpload
    /\ indexes = EmptyDict
    /\ metadatas = EmptyDict
    /\ diskIndex = EmptyDict
    /\ diskMeta = EmptyDict
    /\ s3Index = EmptyDict
    /\ s3Meta = EmptyDict
    /\ s3Enabled \in BOOLEAN
    /\ addPc = [d \in Docs |-> "new"]
    /\ addOrg = [d \in Docs |-> 0]
    /\ addChunks = [d \in Docs |-> <<>>]
    /\ restarts = 0
    /\ ret = NoRet

NextIngest ==
    \/ \E d \in Docs, o \in Orgs, accepted \in BOOLEAN :
            \* documents are numbered in upload order, organizations in the
            \* order of their first upload
            /\ \A e \in Docs : e < d => taskPc[e] # "none"
            /\ d = 1 => o = 1
            /\ UploadDocument(d, o, accepted)
    \/ \E d \in Docs : DeleteUploaded(d)
    \/ \E d \in Docs : TaskBegin(d)
    \/ \E d \in Docs, extracted \in BOOLEAN : TaskExtract(d, extracted)
    \/ \E d \in Docs, n \in 0..MaxChunks : TaskChunk(d, n)
    \/ \E d \in Docs : TaskAdd(d)
    \/ \E d \in Docs : \E oracle \in Oracles(Len(addChunks[d])) :
            AddEmbedded(d, oracle)
    \/ \E d \in Docs, written \in BOOLEAN : SaveIndexFile(d, written)
    \/ \E d \in Docs, written \in BOOLEAN : SaveMetaFile(d, written)
    \/ \E d \in Docs : AddSync(d)
    \/ \E d \in Docs : TaskFinish(d)

SpecIngest == InitIngest /\ [][NextIngest]_vars

\* the order of the processing states; 'error' may follow any of them
StatusRank(status) ==
    CASE status = "queued" -> 0
      [] status = "extracting" -> 1
      [] status = "chunking" -> 2
      [] status = "embedding" -> 3
      [] status = "completed" -> 4
      [] status = "error" -> 5

\* C24: a row is created with status queued; whenever the status of a row
\* changes it moves to a later one of queued, extracting, chunking,
\* embedding, completed (or to error), never away from completed, and the
\* step that changes it is a step of the row's ingestion task.
C24_StatusOnlyMovesForward ==
    [][\A d \in Docs :
          /\ (d \notin DOMAIN documents /\ d \in DOMAIN documents') =>
                documents'[d].processing_status = "queued"
          /\ (/\ d \in DOMAIN documents
              /\ d \in DOMAIN documents'
              /\ documents'[d].processing_status
                    # documents[d].processing_status) =>
                /\ StatusRank(documents[d].processing_status)
                      < StatusRank(documents'[d].processing_status)
                /\ documents[d].processing_status # "completed"
                /\ taskPc[d] \in {"scheduled"} \cup Running
                /\ taskPc'[d] # taskPc[d]]_vars

\* one document is completed while the task of the other, started later,
\* is at its embedding stage
C24_Witness ==
    /\ 1 \in DOMAIN documents
    /\ 2 \in DOMAIN documents
    /\ documents[1].processing_status = "completed"
    /\ documents[2].processing_status = "embedding"
    /\ documents[2].organization_id = 1
    /\ taskPc[1] = "done"

\* C25: a task that ended without success left its row with the status
\* error and a stored message, not completed and not processed.
C25_FailedIngestionIsError ==
    \A d \in DOMAIN documents :
        (taskPc[d] = "done" /\ addPc[d] # "done") =>
            /\ documents[d].processing_status = "error"
            /\ documents[d].processing_error # None
            /\ ~documents[d].processed

\* the documents of organization o whose task ended in "completed"
Ingested(o) ==
    {d \in DOMAIN documents :
        /\ documents[d].organization_id = o
        /\ taskPc[d] = "done"
        /\ documents[d].processing_status = "completed"}

RECURSIVE SumChunkCount(_)
SumChunkCount(ds) ==
    IF ds = {} THEN 0
    ELSE LET d == CHOOSE x \in ds : TRUE
         IN documents[d].chunk_count + SumChunkCount(ds \ {d})

\* C26: when the documents uploaded so far were ingested one after another
\* and every one of them successfully, the index of an organization has as
\* many vectors as the chunk_count values of its documents add up to, and
\* the metadata entry at each position carries the document_id of the
\* document whose chunk the vector at that position embeds.
C26_VectorCountIsSumOfChunkCounts ==
    \A o \in Orgs :
        (/\ ~overlapped
         /\ \A d \in Docs : taskPc[d] \in {"none", "done"}
         /\ \A d \in Docs : taskPc[d] = "done" =>
               (d \in DOMAIN documents
                /\ documents[d].processing_status = "completed")
         /\ Ingested(o) # {}) =>
            /\ o \in DOMAIN indexes
            /\ Len(indexes[o]) = SumChunkCount(Ingested(o))
            /\ \A i \in 1..Len(metadatas[o]) :
                  /\ i <= Len(indexes[o])
                  /\ \E d \in Ingested(o) : \E k \in 1..MaxChunks :
                        /\ indexes[o][i] = EmbedContent(TextOf(d, k))
                        /\ metadatas[o][i].document_id = d

----------------------------------------------------------------------------
(* Claims about concurrent calls of the vector store, checked under        *)
(* SpecStore                                                               *)

\* an add_documents call between its in-memory mutation (lines 209-212)
\* and the end of its persistence (line 222)
Persisting == {"save_index", "save_meta", "sync"}

\* C27: two add_documents calls on the same organization are never both
\* between their in-memory mutation and the end of their persistence: no
\* call mutates the index while another one is persisting it.
C27_IndexMutationsExclusive ==
    \A d \in Docs : \A e \in Docs \ {d} :
        addOrg[d] = addOrg[e] =>
            ~(addPc[d] \in Persisting /\ addPc[e] \in Persisting)

\* C28: a search that runs while an add_documents call on its organization
\* is in flight finds the index and the metadata list of the organization
\* equally long and in the same order.
C28_SearchSeesConsistentIndex ==
    (/\ ret.op = "search"
     /\ \E d \in Docs : /\ addOrg[d] = ret.org
                        /\ addPc[d] \in {"embedding"} \cup Persisting
     /\ ret.org \in (DOMAIN indexes) \cap (DOMAIN metadatas)) =>
        /\ Len(metadatas[ret.org]) = Len(indexes[ret.org])
        /\ \A i \in 1..Len(indexes[ret.org]) :
              indexes[ret.org][i]
                  = EmbedContent(metadatas[ret.org][i].text)

\* the files of the organization of call d hold an index and the metadata
\* of every chunk of the call
OnDisk(d, files, metaFiles) ==
    LET o == addOrg[d]
    IN /\ o \in DOMAIN files
       /\ Len(files[o]) > 0
       /\ o \in DOMAIN metaFiles
       /\ metaFiles[o].readable
       /\ \A k \in 1..Len(addChunks[d]) :
             \E i \in 1..Len(metaFiles[o].rows) :
                metaFiles[o].rows[i] = addChunks[d][k].metadata

\* C29: when add_documents returns True, the index file and the metadata
\* file of the organization have been written with the chunks of the call.
C29_SuccessMeansSaved ==
    [][\A d \in Docs :
          (addPc[d] = "sync" /\ addPc'[d] = "done") =>
              OnDisk(d, diskIndex', diskMeta')]_vars

----------------------------------------------------------------------------
(* A claim about the retrieval stage, checked under SpecQuery *)

\* the positions of invoked at which a method of the set was called
CallsOf(methods) == {n \in 1..Len(invoked) : invoked[n] \in methods}

\* C30: a run that was not refused invokes retrieval once, right after the
\* classification and before the specialist, whatever the intent; and a
\* run whose retrieval returned no chunk still invokes a specialist and
\* the verification before it ends.
C30_RetrievalOnceAndEmptyContinues ==
    LET retrievals == CallsOf({"retriever_agent.retrieve_with_mmr"})
        verifications == CallsOf({"verification_agent.verify_response"})
        specialists == CallsOf({"statutory_interpreter", "case_law_researcher",
                                "contract_analyzer", "compliance_agent",
                                "hybrid_legal_agent"})
    IN /\ Cardinality(retrievals) <= 1
       /\ Len(stages) >= 3 => retrievals = {3}
       /\ \A n \in retrievals :
             invoked[n - 1] = "orchestrator_agent.classify_intent"
       /\ \A n \in specialists : n = 4
       /\ (/\ qPc \in {"done", "error"}
           /\ Len(stages) >= 4
           /\ retrieved_chunks = <<>>) =>
              /\ specialists # {}
              /\ verifications # {}

\* C31: no run ends in its retrieval stage: once retrieval has been
\* entered and nothing after it, the run is about to dispatch a specialist,
\* also when the organization's index could not be synced, loaded or
\* searched or the query could not be embedded.
C31_RetrievalFailureContinues ==
    (Len(stages) = 3 /\ stages[3] = "retrieval") => qPc = "dispatch"

SpecialistAnswers ==
    {AnswerText, "Error in statutory interpretation",
     "Error in case law research", "Error in contract analysis",
     "Error in compliance check"}

\* the answer and the citations of a finalized run are as C32 says
FinalAnswerOf(answer, citations) ==
    /\ response_text \in SpecialistAnswers
    /\ answer = <<response_text, "---", LEGAL_DISCLAIMER>>
    /\ IF query_data.include_citations
       THEN /\ Len(citations) = Min(3, Len(retrieved_chunks))
            /\ \A i \in 1..Len(citations) :
                  /\ citations[i].metadata = retrieved_chunks[i].metadata
                  /\ citations[i].text = retrieved_chunks[i].text
       ELSE citations = <<>>

\* C32: the answer recorded and returned by a run that was not refused is
\* the specialist's answer followed by the disclaimer, and its citations
\* are the first min(3, number of retrieved chunks) retrieved chunks in
\* retrieval order, none when citations were not requested.
C32_AnswerAndCitations ==
    /\ \A n \in 1..Len(query_history) :
          FinalAnswerOf(query_history[n].response, query_history[n].citations)
    /\ qPc = "done" => FinalAnswerOf(response.response, response.citations)

\* a finished run with citations requested and more than three chunks
\* retrieved
C32_Witness ==
    /\ qPc = "done"
    /\ query_data.include_citations
    /\ Len(retrieved_chunks) > 3
    /\ Len(response.citations) = 3
    /\ Len(query_history) = 1

\* C33: the intent recorded in the history row and returned to the caller
\* of a run that was not refused is one of the five intents, whatever text
\* the classifier model answered with.
C33_IntentIsOneOfFive ==
    /\ \A n \in 1..Len(query_history) :
          query_history[n].intent_classification \in Intents
    /\ (qPc = "done" /\ response.intent # "refused") =>
          response.intent \in Intents

\* a step of search, or the step of add_documents that loads or creates
\* the index
LoadStep ==
    \/ ret'.op = "search"
    \/ \E d \in Docs : addPc[d] = "embedding" /\ addPc'[d] # "embedding"
                       /\ restarts' = restarts

\* C34: when search or add_documents finds no in-memory index for an
\* organization that has a local index file, the local index and metadata
\* files are left as they are: the remote copy is downloaded only when the
\* local one is absent, so it never replaces a local copy.
C34_LocalCopyNeverReplaced ==
    [][\A o \in Orgs :
          (LoadStep /\ o \notin DOMAIN indexes /\ o \in DOMAIN diskIndex) =>
             /\ diskIndex'[o] = diskIndex[o]
             /\ o \in DOMAIN diskMeta => diskMeta'[o] = diskMeta[o]]_vars

\* C37: a call of add_documents that returns failure leaves the
\* organization's in-memory index, its metadata list and its local files
\* as they were before the step that failed, so no chunk of the failed
\* call is in the index.
C37_FailedAddChangesNothing ==
    [][\A d \in Docs :
          (addPc[d] \in {"new", "embedding"} /\ addPc'[d] = "failed") =>
             /\ indexes' = indexes
             /\ metadatas' = metadatas
             /\ diskIndex' = diskIndex
             /\ diskMeta' = diskMeta]_vars

\* C38: an organization has an entry in the in-memory index map exactly
\* when it has one in the in-memory metadata map, at every point, also
\* after a load_index that read the index file and failed on the metadata
\* file.
C38_IndexAndMetadataMapsAgree ==
    DOMAIN indexes = DOMAIN metadatas

\* the local files of an organization describe the same number of chunks
FilesAgree(o) ==
    (o \in DOMAIN diskIndex /\ o \in DOMAIN diskMeta) =>
        Len(diskIndex[o]) = Len(diskMeta[o].rows)

\* C39: with add_documents calls of one organization interleaving, each
\* saving in a worker thread while the others append in memory, the index
\* file and the metadata file describe the same number of chunks whenever
\* no save is between its two writes, and once every call has finished the
\* files equal the in-memory index and metadata.
C39_PersistedFilesAgree ==
    /\ (\A d \in Docs : addPc[d] # "save_meta") =>
          \A o \in Orgs : FilesAgree(o)
    /\ (restarts = 0 /\ \A d \in Docs : addPc[d] \notin InFlight) =>
          \A o \in DOMAIN indexes :
             /\ o \in DOMAIN diskIndex /\ diskIndex[o] = indexes[o]
             /\ o \in DOMAIN diskMeta /\ o \in DOMAIN metadatas
             /\ diskMeta[o] = MetaFile(metadatas[o])

\* one step of the while loop of embed_batch: an attempt at the current
\* batch size, or the return
EmbedLoopStep ==
    \/ \E ok \in BOOLEAN : TryBatch(ok)
    \/ \E fails \in [1..2 -> 0..MaxFails] : TryParallel(fails)
    \/ \E fails \in 0..MaxFails : TrySingle(fails)
    \/ EmbedBatchReturn

\* every awaited provider call returns or raises, so the loop takes its
\* next step
SpecEmbedRuns == SpecEmbed /\ WF_vars(EmbedLoopStep)

\* the attempts of the loop at position p
AttemptsAt(p) == {n \in 1..Len(eLog) : eLog[n].pos = p}

\* C35: embed_batch returns for every list of texts and every pattern of
\* provider failures; the position never goes back and is at least one
\* text further whenever an outer iteration ends; and at one position the
\* loop makes at most one attempt per batch size, each single-text call of
\* an attempt sending at most max_retries requests.
C35_EmbedBatchTerminates ==
    /\ (ePc = "loop") ~> (ePc = "batch_done")
    /\ [][/\ eI' >= eI
          /\ (Len(eLog') > Len(eLog) /\ eSize' = 1) => eI' > eI]_vars
    /\ [](/\ \A p \in 1..Len(eTexts) :
                Cardinality(AttemptsAt(p)) <= Len(batch_sizes)
          /\ \A k \in 1..Len(eLast) : eLast[k].attempts <= max_retries
          /\ Len(eLast) <= 2
          /\ \A o \in eOrphans : o.left <= max_retries - 1)

\* a call that returned after every batch size failed at every position
C35_Witness ==
    /\ ePc = "batch_done"
    /\ Len(eTexts) = MaxTexts
    /\ Skipped = 1..MaxTexts
    /\ Len(eLog) = MaxTexts * Len(batch_sizes)
    /\ eEmbeddings = <<>>

\* the value MMR maximizes for the candidate at pool position p once the
\* candidates at the positions `chosen` are selected
MmrValue(pool, p, chosen, weight) ==
    LET sims == {_text_similarity(pool[p].text, pool[q].text) : q \in chosen}
        highest == CHOOSE m \in sims : \A x \in sims : ~FracLess(m, x)
    IN FracSub(pool[p].relevance_score, FracMul(weight, highest))

\* the pool position of the j-th result is the earliest remaining position
\* of maximum value
GreedyPick(pool, res, j, weight) ==
    LET chosen == {res[i].metadata.chunk_index : i \in 1..(j - 1)}
        rest == (1..Len(pool)) \ chosen
        me == res[j].metadata.chunk_index
    IN /\ me \in rest
       /\ res[j] = pool[me]
       /\ \A p \in rest :
             /\ ~FracLess(MmrValue(pool, me, chosen, weight),
                          MmrValue(pool, p, chosen, weight))
             /\ p < me => FracLess(MmrValue(pool, p, chosen, weight),
                                   MmrValue(pool, me, chosen, weight))

Specialists ==
    {"statutory_interpreter", "case_law_researcher", "contract_analyzer",
     "compliance_agent", "hybrid_legal_agent"}

\* the calls of chat_completion that the specialist of the run made
SpecialistCalls ==
    {n \in 1..Len(llm_calls) : llm_calls[n].caller \in Specialists}

\* tokens and cost are those that the specialist call of the run returned:
\* the usage of its reply, or nothing when the call raised
TalliesSpecialistOnly(tokens, cost) ==
    /\ Cardinality(SpecialistCalls) = 1
    /\ \A n \in SpecialistCalls :
          IF llm_calls[n].outcome = "ok"
          THEN \E u \in Usages :
                  /\ tokens = u.input_tokens + u.output_tokens
                  /\ cost = estimate_cost(u.input_tokens, u.output_tokens)
          ELSE tokens = 0 /\ cost = 0

\* C40: the tokens and the cost recorded in the history row and returned
\* in the response of a run that was not refused are exactly those returned
\* by its one specialist call; the safety, classification and verification
\* calls add nothing.
C40_TokensAreTheSpecialists ==
    /\ \A n \in 1..Len(query_history) :
          TalliesSpecialistOnly(query_history[n].total_tokens,
                                query_history[n].cost_estimate)
    /\ (qPc = "done") =>
          TalliesSpecialistOnly(response.tokens_used, response.cost_estimate)

\* a finished run whose safety, classification, specialist and
\* verification calls all returned with a token usage of their own
C40_Witness ==
    /\ qPc = "done"
    /\ Len(llm_calls) = 4
    /\ \A n \in 1..Len(llm_calls) : llm_calls[n].outcome \notin {"raise"}
    /\ llm_calls[4].caller = "verification"
    /\ response.tokens_used > 0
    /\ response.cost_estimate > 0
    /\ Len(query_history) = 1
    /\ query_history[1].total_tokens = response.tokens_used

====
